---- MODULE Spec2Model ----
(***************************************************************************)
(* A model of the job execution core of the fine-tuning engine:            *)
(*   - the export pipeline        (src/ml_core/convert_to_gguf.py)         *)
(*   - the training process       (src/ml_core/training_script.py)         *)
(*   - the record-json ingestors  (src/ml_core/data_loader.py)             *)
(*   - the tabular and the free-text ingestors (data_loader.py)            *)
(*   - the step estimate of main() as a function of its inputs             *)
(*   - the progress callback      (LoggingCallback, training_script.py)    *)
(*   - the ETA computation        (src/ml_core/training_utils.py)          *)
(* Each part has its own specification over the shared variables; the     *)
(* variables of the other parts stay at their idle values.                 *)
(***************************************************************************)
EXTENDS Integers, Sequences, FiniteSets, TLC

VARIABLES
    \* ---- export pipeline (convert_to_gguf.py) ----
    pc,               \* position in main()
    model_dir_exists, \* os.path.exists(args.model_dir)
    existing,         \* the candidate quantizer paths that exist on disk
    script_exists,    \* os.path.exists(convert_script)
    output_file,      \* args.output_file, a path
    quantize_binary,  \* the local of main(): the probe's result
    temp_f16_file,    \* the local of main()
    disk,             \* path -> content of the file at that path
    conv,             \* what the conversion script did ("not_run" before)
    quant,            \* what the quantizer did ("not_run" before)
    conv_calls,       \* number of subprocess.run of the conversion script
    quant_calls,      \* number of subprocess.run of the quantizer
    quant_argv,       \* argv of the quantizer's invocation
    reported,         \* "GGUF conversion complete" has been printed
    exit_code,        \* the process's exit code once pc = "exit"
    stages,           \* history: the pipeline stages passed through, in order
    \* ---- ingestion (data_loader.py): one loader pair at a time ----
    file,             \* the dataset file: its lines, rows or characters
    m_result,         \* what the materialized loader returned or raised
    s_pos,            \* the streaming generator: lines consumed so far
    s_out,            \* the streaming generator: records yielded so far
    s_status,         \* the streaming generator: "ready", "done" or "error"
    chunk_size,       \* the argument chunk_size of the free-text loaders
    \* ---- tokenization (data_loader.py, format_for_training) ----
    tok_pc,           \* "idle", "start", "lazy" (a mapped stream) or "done"
    dataset,          \* the records {"text": ...} of the input dataset
    is_iterable,      \* isinstance(dataset, IterableDataset)
    max_length,       \* the argument max_length
    tok_pos,          \* input records consumed by the mapped stream
    tokenized,        \* the records of tokenized_dataset produced so far
    \* ---- suggest_lora_target_modules (training_utils.py) ----
    named_modules,    \* model.named_modules(): a list of (name, module type)
    targets,          \* the list returned, <<>> before the call
    \* ---- the wizard (gui/main_window.py and gui/steps) ----
    wizard_step,      \* MainWindow.current_step, 0..4
    job_id,           \* MainWindow.job_id, NoJob for None
    current_status,   \* Step4TrainingWidget.current_status
    timers_active,    \* the timers held in status_timer, metrics_timer and
                      \* logs_timer exist and run
    orphan_timers,    \* running sets of timers the widget no longer holds
    signal,           \* the queued signal of CreateJobThread, <<>> if none
    jobs,             \* the backend: the status of the jobs created, by id
    closed,           \* the window was closed
    created_by_next,  \* history: the job made by the last Next on Configure
    completed_seen,   \* history: jobs polled as COMPLETED while current
    terminal_seen,    \* history: jobs seen terminal by the Training step
    polled_after,     \* history: a poll was sent for a job seen terminal
    notified,         \* history: completion/failure boxes shown, per job
    last_back,        \* history: the last Back navigation
    bad_request,      \* history: a Training request without the current job
    \* ---- training process (training_script.py) ----
    t_pc,             \* the stage main() is about to run
    stream,           \* args.stream
    dataset_ext,      \* Path(args.dataset).suffix.lower()
    file_exists,      \* the dataset file can be opened
    approx,           \* the local 'approx' of main(), once defined
    batch_size,       \* args.batch_size
    grad_accum,       \* args.grad_accum
    epochs,           \* args.epochs
    calc_max_steps,   \* the local of main(); None until computed
    max_steps,        \* TrainingArguments(max_steps=...), once constructed
    t_exit,           \* the process's exit code once t_pc = "exit"
    t_log,            \* history: the stages started, in order
    t_raised,         \* history: the stages that raised an exception
    \* ---- the step estimate on its own (training_script.py 262-278) ----
    est_in,           \* the inputs: approx, batch_size, grad_accum, epochs
    est_out,          \* the calc_max_steps computed from them
    \* ---- the progress callback during trainer.train() ----
    l_pc,             \* "training", "ended" or "aborted"
    global_step,      \* state.global_step
    total_steps,      \* state.max_steps
    elapsed,          \* time.time() - self.start_time, in whole seconds
    progress,         \* the progress lines printed so far
    \* ---- calculate_eta on its own (training_utils.py) ----
    eta_in,           \* the arguments current_step, total_steps, elapsed_time
    eta_out           \* the string returned

exportVars == <<pc, model_dir_exists, existing, script_exists, output_file,
                quantize_binary, temp_f16_file, disk, conv, quant, conv_calls,
                quant_calls, quant_argv, reported, exit_code, stages>>

jsonlVars == <<m_result, s_pos, s_out, s_status>>

trainVars == <<t_pc, stream, dataset_ext, file_exists, approx, batch_size,
               grad_accum, epochs, calc_max_steps, max_steps, t_exit, t_log,
               t_raised>>

estVars == <<est_in, est_out>>

logVars == <<l_pc, global_step, total_steps, elapsed, progress>>

etaVars == <<eta_in, eta_out>>

txtVars == <<chunk_size>>

\* the variables of the parts modelled last
tokVars == <<tok_pc, dataset, is_iterable, max_length, tok_pos, tokenized>>

loraVars == <<named_modules, targets>>

guiVars == <<wizard_step, job_id, current_status, timers_active,
             orphan_timers, signal, jobs, closed, created_by_next,
             completed_seen, terminal_seen, polled_after, notified, last_back,
             bad_request>>

lateVars == <<txtVars, tokVars, loraVars, guiVars>>

vars == <<exportVars, file, jsonlVars, trainVars, estVars, logVars, etaVars,
          lateVars>>

None == "None"

\* the values of a part's variables while another part is being run
ExportIdle ==
    /\ pc = "idle"
    /\ model_dir_exists = FALSE
    /\ existing = {}
    /\ script_exists = FALSE
    /\ output_file = <<>>
    /\ quantize_binary = None
    /\ temp_f16_file = None
    /\ disk = <<>>
    /\ conv = "not_run"
    /\ quant = "not_run"
    /\ conv_calls = 0
    /\ quant_calls = 0
    /\ quant_argv = <<>>
    /\ reported = FALSE
    /\ exit_code = 0
    /\ stages = <<>>

JsonlIdle ==
    /\ m_result = [status |-> "not_called", data |-> <<>>]
    /\ s_pos = 0
    /\ s_out = <<>>
    /\ s_status = "idle"

TrainIdle ==
    /\ t_pc = "idle"
    /\ stream = FALSE
    /\ dataset_ext = ""
    /\ file_exists = FALSE
    /\ approx = <<>>
    /\ batch_size = 0
    /\ grad_accum = 0
    /\ epochs = 0
    /\ calc_max_steps = <<>>
    /\ max_steps = <<>>
    /\ t_exit = 0
    /\ t_log = <<>>
    /\ t_raised = {}

EstIdle ==
    /\ est_in = <<>>
    /\ est_out = <<>>

LogIdle ==
    /\ l_pc = "idle"
    /\ global_step = 0
    /\ total_steps = 0
    /\ elapsed = 0
    /\ progress = <<>>

EtaIdle ==
    /\ eta_in = <<>>
    /\ eta_out = <<>>

\* the parts added to the three first ones
OthersIdle == EstIdle /\ LogIdle /\ EtaIdle

TxtIdle == chunk_size = 0

TokIdle ==
    /\ tok_pc = "idle"
    /\ dataset = <<>>
    /\ is_iterable = FALSE
    /\ max_length = 0
    /\ tok_pos = 0
    /\ tokenized = <<>>

LoraIdle == named_modules = <<>> /\ targets = <<>>

MaxJobs == 2

\* self.job_id = None
NoJob == 0

\* MainWindow.__init__ and Step4TrainingWidget.__init__; no job on the
\* backend, nothing observed
GuiInit ==
    /\ wizard_step = 0
    /\ job_id = NoJob
    /\ current_status = "QUEUED"
    /\ timers_active = FALSE
    /\ orphan_timers = 0
    /\ signal = <<>>
    /\ jobs = <<>>
    /\ closed = FALSE
    /\ created_by_next = NoJob
    /\ completed_seen = {}
    /\ terminal_seen = {}
    /\ polled_after = FALSE
    /\ notified = [j \in 1..MaxJobs |-> 0]
    /\ last_back = <<>>
    /\ bad_request = FALSE

GuiIdle == GuiInit

LateIdle == TxtIdle /\ TokIdle /\ LoraIdle /\ GuiIdle

otherVars == <<estVars, logVars, etaVars>>

----------------------------------------------------------------------------
(* Paths.  A path is a sequence of name pieces; str.replace acts on every  *)
(* occurrence of the piece ".gguf".                                        *)

MaxPathLen == 2

PathPieces == {"model", ".gguf", ".bin"}

Paths == UNION {[1..n -> PathPieces] : n \in 1..MaxPathLen}

\* args.output_file.replace('.gguf', '_f16_temp.gguf')
ReplaceGguf(path) ==
    [i \in 1..Len(path) |-> IF path[i] = ".gguf" THEN "_f16_temp.gguf" ELSE path[i]]

\* the two places on disk a run may touch
FilesOf(out) == {out, ReplaceGguf(out)}

\* file contents: absent, left by an earlier run, or written by this run
Absent == "absent"
Stale == "stale"
Written == {"f16", "partial", "quant"}

----------------------------------------------------------------------------
(* check_llama_cpp                                                         *)

possible_paths ==
    << "ml_core/llama.cpp/quantize",
       "ml_core/llama.cpp/quantize.exe",
       "ml_core/llama.cpp/llama-quantize",
       "ml_core/llama.cpp/llama-quantize.exe",
       "ml_core/llama.cpp/build/bin/Release/llama-quantize.exe",
       "ml_core/llama.cpp/build/bin/Release/quantize.exe" >>

Candidates == {possible_paths[i] : i \in 1..Len(possible_paths)}

RECURSIVE ProbeFrom(_, _)
ProbeFrom(i, ex) ==
    IF i > Len(possible_paths) THEN None
    ELSE IF possible_paths[i] \in ex THEN possible_paths[i]
    ELSE ProbeFrom(i + 1, ex)

\* faulty variant: the loop does not stop at the first path found
check_llama_cpp_LastFound(ex) ==
    IF ex \cap Candidates = {} THEN None
    ELSE possible_paths[CHOOSE i \in 1..Len(possible_paths) :
                           /\ possible_paths[i] \in ex
                           /\ \A j \in (i + 1)..Len(possible_paths) :
                                 possible_paths[j] \notin ex]

check_llama_cpp(ex) == ProbeFrom(1, ex)

----------------------------------------------------------------------------
(* main() of convert_to_gguf.py                                            *)

\* faulty variant: the F16 file always goes to the *_f16_temp place
TempF16File_AlwaysTemp(qb, out) == ReplaceGguf(out)

\* lines 157-160
TempF16File(qb, out) == IF qb = None THEN out ELSE ReplaceGguf(out)

\* the stage of the export state machine the process is in
Stage ==
    CASE pc = "exit" /\ exit_code # 0 -> "FAILED"
      [] pc = "exit" /\ exit_code = 0 -> "COMPLETED"
      [] pc \in {"start", "probe"} -> "NOT_STARTED"
      [] pc = "convert" -> "CONVERTING_F16"
      [] pc \in {"step2", "verify"} /\ quantize_binary # None -> "QUANTIZING"
      [] pc \in {"step2", "verify"} /\ quantize_binary = None -> "SKIPPED"
      [] OTHER -> "COMPLETED"

ExportInit ==
    /\ pc = "start"
    /\ model_dir_exists \in BOOLEAN
    /\ existing \in SUBSET Candidates
    /\ script_exists \in BOOLEAN
    /\ output_file \in Paths
    /\ quantize_binary = None
    /\ temp_f16_file = None
    /\ disk \in [FilesOf(output_file) -> {Absent, Stale}]
    /\ conv = "not_run"
    /\ quant = "not_run"
    /\ conv_calls = 0
    /\ quant_calls = 0
    /\ quant_argv = <<>>
    /\ reported = FALSE
    /\ exit_code = 0
    /\ stages = <<"NOT_STARTED">>

\* a step of the export leaves the other parts alone
ExportOnly == UNCHANGED <<file, jsonlVars, trainVars, otherVars, lateVars>>

\* the history of stages grows by the stage entered, when the stage changes
Track == stages' = IF Stage' # Stage THEN Append(stages, Stage') ELSE stages

\* sys.exit(1)
ExitFailure == pc' = "exit" /\ exit_code' = 1

\* lines 147-150: the model directory must exist
CheckModelDir ==
    /\ pc = "start"
    /\ IF model_dir_exists THEN pc' = "probe" /\ exit_code' = exit_code
                           ELSE ExitFailure
    /\ UNCHANGED <<model_dir_exists, existing, script_exists, output_file,
                   quantize_binary, temp_f16_file, disk, conv, quant,
                   conv_calls, quant_calls, quant_argv, reported>>
    /\ Track
    /\ ExportOnly

\* lines 152-160: probe for the quantizer, choose where the F16 file goes
Probe ==
    /\ pc = "probe"
    /\ quantize_binary' = check_llama_cpp(existing)
    /\ temp_f16_file' = TempF16File(quantize_binary', output_file)
    /\ pc' = "convert"
    /\ UNCHANGED <<model_dir_exists, existing, script_exists, output_file,
                   disk, conv, quant, conv_calls, quant_calls, quant_argv,
                   reported, exit_code>>
    /\ Track
    /\ ExportOnly

\* What the external conversion script may do with its --outfile:
\*   ok           exits 0 having written the F16 file
\*   ok_nofile    exits 0 without having written the file
\*   fail         exits non-zero, the file untouched
\*   fail_partial exits non-zero after having written part of the file
ConvOutcomes == {"ok", "ok_nofile", "fail", "fail_partial"}

ConvWrites(o, d, f) ==
    CASE o = "ok" -> [d EXCEPT ![f] = "f16"]
      [] o = "fail_partial" -> [d EXCEPT ![f] = "partial"]
      [] OTHER -> d

\* faulty variant: the script's exit status is ignored
ConvertReturns_IgnoresExit(o) == TRUE

\* convert_to_f16 (lines 51-96): TRUE iff the script exists and exits 0
ConvertReturns(o) == o \in {"ok", "ok_nofile"}

\* lines 162-165: step 1, fatal when convert_to_f16 returns False
Convert ==
    /\ pc = "convert"
    /\ IF ~script_exists
       THEN /\ conv' = "no_script"
            /\ ExitFailure
            /\ UNCHANGED <<disk, conv_calls>>
       ELSE \E o \in ConvOutcomes :
            /\ conv' = o
            /\ conv_calls' = conv_calls + 1
            /\ disk' = ConvWrites(o, disk, temp_f16_file)
            /\ IF ConvertReturns(o)
               THEN pc' = "step2" /\ exit_code' = exit_code
               ELSE ExitFailure
    /\ UNCHANGED <<model_dir_exists, existing, script_exists, output_file,
                   quantize_binary, temp_f16_file, quant, quant_calls,
                   quant_argv, reported>>
    /\ Track
    /\ ExportOnly

\* What the external quantizer may do with its output file:
\*   ok, ok_nofile, fail, fail_partial as for the conversion script;
\*   oserror      subprocess.run raises OSError (the path exists but cannot be
\*                executed), which quantize_gguf does not catch
QuantOutcomes == {"ok", "ok_nofile", "fail", "fail_partial", "oserror"}

QuantWrites(o, d, f) ==
    CASE o = "ok" -> [d EXCEPT ![f] = "quant"]
      [] o = "fail_partial" -> [d EXCEPT ![f] = "partial"]
      [] OTHER -> d

\* quantize_gguf (lines 99-136): TRUE iff the quantizer exits 0
QuantizeReturns(o) == o \in {"ok", "ok_nofile"}

\* faulty variant: the clean-up is forgotten
RemoveTemp_Keeps(d, f) == d

\* if os.path.exists(temp_f16_file): os.remove(temp_f16_file)
RemoveTemp(d, f) == [d EXCEPT ![f] = Absent]

\* lines 168-180: step 2 with a quantizer, then the clean-up of the F16 file
Quantize ==
    /\ pc = "step2"
    /\ quantize_binary # None
    /\ \E o \in QuantOutcomes :
        /\ quant' = o
        /\ quant_calls' = quant_calls + 1
        /\ quant_argv' = <<quantize_binary, temp_f16_file, output_file>>
        /\ IF o = "oserror"
           THEN disk' = disk /\ ExitFailure
           ELSE /\ disk' = RemoveTemp(QuantWrites(o, disk, output_file),
                                      temp_f16_file)
                /\ IF QuantizeReturns(o)
                   THEN pc' = "verify" /\ exit_code' = exit_code
                   ELSE ExitFailure
    /\ UNCHANGED <<model_dir_exists, existing, script_exists, output_file,
                   quantize_binary, temp_f16_file, conv, conv_calls, reported>>
    /\ Track
    /\ ExportOnly

\* lines 181-183: step 2 without a quantizer
SkipQuantization ==
    /\ pc = "step2"
    /\ quantize_binary = None
    /\ pc' = "verify"
    /\ UNCHANGED <<model_dir_exists, existing, script_exists, output_file,
                   quantize_binary, temp_f16_file, disk, conv, quant,
                   conv_calls, quant_calls, quant_argv, reported, exit_code>>
    /\ Track
    /\ ExportOnly

\* faulty variant: the reported success is trusted
OutputExists_Trusting(d, out) == TRUE

\* os.path.exists(args.output_file)
OutputExists(d, out) == d[out] # Absent

\* faulty variant: a missing output file sends the run back to the conversion
Verify_RetriesConversion ==
    /\ pc = "verify"
    /\ IF OutputExists(disk, output_file)
       THEN reported' = TRUE /\ pc' = "verify2"
       ELSE reported' = reported /\ pc' = "convert"
    /\ UNCHANGED <<model_dir_exists, existing, script_exists, output_file,
                   quantize_binary, temp_f16_file, disk, conv, quant,
                   conv_calls, quant_calls, quant_argv, exit_code>>
    /\ Track
    /\ ExportOnly

\* lines 185-193: the output file must exist
Verify ==
    /\ pc = "verify"
    /\ IF OutputExists(disk, output_file)
       THEN reported' = TRUE /\ pc' = "verify2" /\ exit_code' = exit_code
       ELSE reported' = reported /\ ExitFailure
    /\ UNCHANGED <<model_dir_exists, existing, script_exists, output_file,
                   quantize_binary, temp_f16_file, disk, conv, quant,
                   conv_calls, quant_calls, quant_argv>>
    /\ Track
    /\ ExportOnly

\* lines 195-203: the same verification a second time, then main() returns
VerifyAgain ==
    /\ pc = "verify2"
    /\ IF OutputExists(disk, output_file)
       THEN reported' = TRUE /\ pc' = "exit" /\ exit_code' = 0
       ELSE reported' = reported /\ ExitFailure
    /\ UNCHANGED <<model_dir_exists, existing, script_exists, output_file,
                   quantize_binary, temp_f16_file, disk, conv, quant,
                   conv_calls, quant_calls, quant_argv>>
    /\ Track
    /\ ExportOnly

ExportNext ==
    \/ CheckModelDir
    \/ Probe
    \/ Convert
    \/ Quantize
    \/ SkipQuantization
    \/ Verify
    \/ VerifyAgain

ExportStart ==
    /\ ExportInit /\ file = <<>>
    /\ JsonlIdle /\ TrainIdle /\ OthersIdle /\ LateIdle

Spec == ExportStart /\ [][ExportNext]_vars

----------------------------------------------------------------------------
(* record-json files (data_loader.py)                                      *)

MaxLines == 2

Keys == {"instruction", "response", "input", "output", "text"}

\* the order json.dumps writes the keys in
KeyOrder == <<"instruction", "response", "input", "output", "text">>

\* the value a sample object holds under each key
SampleValue(k) ==
    CASE k = "instruction" -> "Hi"
      [] k = "response" -> "Hello"
      [] k = "input" -> "In"
      [] k = "output" -> "Out"
      [] OTHER -> "raw"

\* the values tried under the key "text": a plain one and one made of
\* whitespace only
TextValues == {"raw", " "}

\* JSON objects: every combination of the keys the loaders look at
Objects ==
    {[k \in K |-> IF k = "text" THEN v ELSE SampleValue(k)] :
        K \in SUBSET Keys, v \in TextValues}

\* a line of the file: whitespace only, not JSON, or a JSON object
BlankLine == [kind |-> "blank", obj |-> <<>>]
MalformedLine == [kind |-> "malformed", obj |-> <<>>]
ObjectLine(o) == [kind |-> "object", obj |-> o]

JsonlLines == {BlankLine, MalformedLine} \cup {ObjectLine(o) : o \in Objects}

FilesOver(lines) == UNION {[1..n -> lines] : n \in 0..MaxLines}

\* 'k in obj'
Has(o, k) == k \in DOMAIN o

\* json.dumps(obj): a text is a sequence of pieces
RECURSIVE DumpFrom(_, _, _)
DumpFrom(o, i, first) ==
    IF i > Len(KeyOrder) THEN <<"}">>
    ELSE IF Has(o, KeyOrder[i])
         THEN (IF first THEN <<>> ELSE <<", ">>)
              \o <<"\"", KeyOrder[i], "\": \"", o[KeyOrder[i]], "\"">>
              \o DumpFrom(o, i + 1, FALSE)
         ELSE DumpFrom(o, i + 1, first)

json_dumps(o) == <<"{">> \o DumpFrom(o, 1, TRUE)

\* faulty variant: the text key is tried before the pairs
JsonlText_TextFirst(o) ==
    IF Has(o, "text") THEN <<o["text"]>>
    ELSE IF Has(o, "instruction") /\ Has(o, "response")
    THEN <<"### Instruction:\n", o["instruction"],
           "\n\n### Response:\n", o["response"]>>
    ELSE IF Has(o, "input") /\ Has(o, "output")
    THEN <<"### Input:\n", o["input"], "\n\n### Output:\n", o["output"]>>
    ELSE json_dumps(o)

\* load_jsonl, lines 37-46: the text of one object
JsonlText(o) ==
    IF Has(o, "instruction") /\ Has(o, "response")
    THEN <<"### Instruction:\n", o["instruction"],
           "\n\n### Response:\n", o["response"]>>
    ELSE IF Has(o, "input") /\ Has(o, "output")
    THEN <<"### Input:\n", o["input"], "\n\n### Output:\n", o["output"]>>
    ELSE IF Has(o, "text") THEN <<o["text"]>>
    ELSE json_dumps(o)

\* load_jsonl, lines 29-48: the loop over the lines from line i on, data
\* being the records appended so far; json.loads raises on a malformed line
RECURSIVE LoadJsonlFrom(_, _, _)
LoadJsonlFrom(f, i, data) ==
    IF i > Len(f) THEN [status |-> "ok", data |-> data]
    ELSE IF f[i].kind = "blank" THEN LoadJsonlFrom(f, i + 1, data)
    ELSE IF f[i].kind = "malformed" THEN [status |-> "error", data |-> <<>>]
    ELSE LoadJsonlFrom(f, i + 1, Append(data, [text |-> JsonlText(f[i].obj)]))

\* load_jsonl(file_path) for a file that can be opened
load_jsonl(f) == LoadJsonlFrom(f, 1, <<>>)

\* faulty variant: blank lines are not skipped by the generator
StreamSkip_KeepsBlank(f, i) == i

\* load_jsonl_streaming, lines 57-60: the next line at or after i that is
\* not blank (Len(f) + 1 when there is none)
RECURSIVE StreamSkip(_, _)
StreamSkip(f, i) ==
    IF i > Len(f) THEN i
    ELSE IF f[i].kind = "blank" THEN StreamSkip(f, i + 1)
    ELSE i

\* load_jsonl_streaming, lines 62-69: the text of one object
StreamingText(o) ==
    IF Has(o, "instruction") /\ Has(o, "response")
    THEN <<"### Instruction:\n", o["instruction"],
           "\n\n### Response:\n", o["response"]>>
    ELSE IF Has(o, "input") /\ Has(o, "output")
    THEN <<"### Input:\n", o["input"], "\n\n### Output:\n", o["output"]>>
    ELSE IF Has(o, "text") THEN <<o["text"]>>
    ELSE json_dumps(o)

JsonlInit ==
    /\ file \in FilesOver(JsonlLines)
    /\ m_result = [status |-> "not_called", data |-> <<>>]
    /\ s_pos = 0
    /\ s_out = <<>>
    /\ s_status = "ready"

\* a step of a loader leaves the other parts alone
JsonlOnly == UNCHANGED <<exportVars, trainVars, otherVars, lateVars>>

\* the call load_jsonl(file_path), lines 19-50
LoadMaterialized ==
    /\ m_result.status = "not_called"
    /\ m_result' = load_jsonl(file)
    /\ UNCHANGED <<file, s_pos, s_out, s_status>>
    /\ JsonlOnly

\* one next() of the generator of load_jsonl_streaming, lines 55-70: runs to
\* the next yield, to the end of the file, or to the json.loads that raises
StreamNext ==
    /\ s_status = "ready"
    /\ LET i == StreamSkip(file, s_pos + 1) IN
       IF i > Len(file)
       THEN s_status' = "done" /\ s_pos' = Len(file) /\ s_out' = s_out
       ELSE IF file[i].kind = "malformed"
       THEN s_status' = "error" /\ s_pos' = i /\ s_out' = s_out
       ELSE /\ s_status' = "ready"
            /\ s_pos' = i
            /\ s_out' = Append(s_out, [text |-> StreamingText(file[i].obj)])
    /\ UNCHANGED <<file, m_result>>
    /\ JsonlOnly

JsonlNext ==
    \/ LoadMaterialized
    \/ StreamNext

JsonlStart ==
    JsonlInit /\ ExportIdle /\ TrainIdle /\ OthersIdle /\ LateIdle

JsonlSpec == JsonlStart /\ [][JsonlNext]_vars

----------------------------------------------------------------------------
(* main() of training_script.py                                            *)

MaxArg == 2

\* the integer values tried for --batch-size, --grad-accum and --epochs
ArgValues == 0..MaxArg

SupportedExts == {".jsonl", ".csv", ".txt"}

Exts == SupportedExts \cup {".json"}

\* the lines of the dataset files the training process is run on
TrainLines == {BlankLine, MalformedLine, ObjectLine([k \in {"text"} |-> "raw"])}

\* the generator of load_jsonl_streaming, iterated from line pos + 1 on,
\* reaches a json.loads that raises
RECURSIVE StreamRaisesFrom(_, _)
StreamRaisesFrom(f, pos) ==
    LET i == StreamSkip(f, pos + 1) IN
    IF i > Len(f) THEN FALSE
    ELSE IF f[i].kind = "malformed" THEN TRUE
    ELSE StreamRaisesFrom(f, i)

\* iterating the streaming dataset raises: every generator opens the file
\* when it is first iterated, and the record-json one parses each line
IterationRaises(ext, exists, f) ==
    \/ ~exists
    \/ ext = ".jsonl" /\ StreamRaisesFrom(f, 0)

\* lines 153-160: the materialized loaders raise when the file cannot be
\* opened; load_jsonl also when a line is not JSON
MaterializedRaises(ext, exists, f) ==
    \/ ext \notin SupportedExts
    \/ ~exists
    \/ ext = ".jsonl" /\ load_jsonl(f).status = "error"

\* lines 120-128: building a streaming dataset reads nothing; only an
\* unsupported extension raises
StreamingRaises(ext, exists, f) == ext \notin SupportedExts

\* faulty variant: the header line of a tabular file is counted as a row
CountLines_HeaderCounted(ext, exists, f) ==
    IF ~exists THEN <<>>
    ELSE IF ext \in SupportedExts THEN <<Len(f)>>
    ELSE <<0>>

\* lines 130-151: the pre-scan; <<n>> when approx gets defined, <<>> when
\* open() raises and the exception is swallowed
CountLines(ext, exists, f) ==
    IF ~exists THEN <<>>
    ELSE IF ext \in {".jsonl", ".txt"} THEN <<Len(f)>>
    ELSE IF ext = ".csv" THEN <<Len(f) - 1>>
    ELSE <<0>>

\* faulty variant: the quotient is rounded down
CeilDiv_Floor(a, b) == a \div b

\* math.ceil(a / b) for positive integers
CeilDiv(a, b) == (a + b - 1) \div b

Max(a, b) == IF a >= b THEN a ELSE b

FallbackExamples == 512

\* faulty variant: the number of epochs does not enter the product
EstimateSteps_EpochsIgnored(ap, b, g, e) ==
    LET n0 == IF ap = <<>> THEN 0 ELSE ap[1]
        num_examples == IF n0 <= 0 THEN FallbackExamples ELSE n0
        num_batches_per_epoch == CeilDiv(Max(1, num_examples), Max(1, b))
        num_update_steps_per_epoch == CeilDiv(num_batches_per_epoch, Max(1, g))
    IN Max(1, num_update_steps_per_epoch)

\* faulty variant: the examples are multiplied by the batch size
EstimateSteps_TimesBatch(ap, b, g, e) ==
    LET n0 == IF ap = <<>> THEN 0 ELSE ap[1]
        num_examples == IF n0 <= 0 THEN FallbackExamples ELSE n0
        num_batches_per_epoch == Max(1, num_examples) * Max(1, b)
        num_update_steps_per_epoch == CeilDiv(num_batches_per_epoch, Max(1, g))
    IN Max(1, num_update_steps_per_epoch * Max(1, e))

\* lines 267-274: the step budget of a streaming run
EstimateSteps(ap, b, g, e) ==
    LET n0 == IF ap = <<>> THEN 0 ELSE ap[1]
        num_examples == IF n0 <= 0 THEN FallbackExamples ELSE n0
        num_batches_per_epoch == CeilDiv(Max(1, num_examples), Max(1, b))
        num_update_steps_per_epoch == CeilDiv(num_batches_per_epoch, Max(1, g))
    IN Max(1, num_update_steps_per_epoch * Max(1, e))

TrainInit ==
    /\ t_pc = "load"
    /\ stream \in BOOLEAN
    /\ dataset_ext \in Exts
    /\ file_exists \in BOOLEAN
    /\ file \in (IF file_exists THEN FilesOver(TrainLines) ELSE {<<>>})
    /\ approx = <<>>
    /\ batch_size \in ArgValues
    /\ grad_accum \in ArgValues
    /\ epochs \in ArgValues
    /\ calc_max_steps = <<>>
    /\ max_steps = <<>>
    /\ t_exit = 0
    /\ t_log = <<>>
    /\ t_raised = {}

\* a step of the training process leaves the other parts alone
TrainOnly == UNCHANGED <<exportVars, jsonlVars, otherVars, lateVars>>

TrainArgs == <<stream, dataset_ext, file_exists, file, batch_size, grad_accum,
               epochs>>

\* sys.exit(1), or an exception that leaves main()
TrainFails == t_pc' = "exit" /\ t_exit' = 1

\* faulty variant: an exception of the stage is logged and main() goes on
LibraryStage_Swallows(name, next) ==
    /\ t_pc = name
    /\ t_log' = Append(t_log, name)
    /\ \E raises \in BOOLEAN :
         /\ t_pc' = next
         /\ t_exit' = t_exit
         /\ t_raised' = IF raises THEN t_raised \cup {name} ELSE t_raised
    /\ UNCHANGED <<approx, calc_max_steps, max_steps>>
    /\ UNCHANGED TrainArgs
    /\ TrainOnly

\* a stage that an external library performs and that may raise: on an
\* exception the process exits 1, otherwise it goes on with the stage next
LibraryStage(name, next) ==
    /\ t_pc = name
    /\ t_log' = Append(t_log, name)
    /\ \E raises \in BOOLEAN :
         IF raises THEN TrainFails /\ t_raised' = t_raised \cup {name}
         ELSE t_pc' = next /\ t_exit' = t_exit /\ t_raised' = t_raised
    /\ UNCHANGED <<approx, calc_max_steps, max_steps>>
    /\ UNCHANGED TrainArgs
    /\ TrainOnly

\* lines 117-165: load the dataset
LoadDataset ==
    /\ t_pc = "load"
    /\ t_log' = Append(t_log, "load")
    /\ IF stream
       THEN IF StreamingRaises(dataset_ext, file_exists, file)
            THEN TrainFails /\ approx' = approx /\ t_raised' = {"load"}
            ELSE /\ approx' = CountLines(dataset_ext, file_exists, file)
                 /\ t_pc' = "tokenizer"
                 /\ t_exit' = t_exit
                 /\ t_raised' = t_raised
       ELSE /\ approx' = approx
            /\ IF MaterializedRaises(dataset_ext, file_exists, file)
               THEN TrainFails /\ t_raised' = {"load"}
               ELSE t_pc' = "tokenizer" /\ t_exit' = t_exit
                    /\ t_raised' = t_raised
    /\ UNCHANGED <<calc_max_steps, max_steps>>
    /\ UNCHANGED TrainArgs
    /\ TrainOnly

\* lines 167-176
LoadTokenizer == LibraryStage("tokenizer", "tokenize")

\* lines 178-198
Tokenize == LibraryStage("tokenize", "model")

\* lines 200-221
LoadModel == LibraryStage("model", "lora")

\* lines 223-258
ApplyLora == LibraryStage("lora", "args")

\* faulty variant: the step budget is not handed on
MaxStepsArg_Unlimited(cms) == -1

\* line 291: max_steps=calc_max_steps if calc_max_steps is not None else -1
MaxStepsArg(cms) == IF cms # <<>> THEN cms[1] ELSE -1

\* lines 260-310: the step budget, the training arguments and the trainer
PrepareTrainer ==
    /\ t_pc = "args"
    /\ t_log' = Append(t_log, "args")
    /\ calc_max_steps' =
          IF stream THEN <<EstimateSteps(approx, batch_size, grad_accum, epochs)>>
                    ELSE <<>>
    /\ max_steps' = <<MaxStepsArg(calc_max_steps')>>
    /\ \E raises \in BOOLEAN :
         IF raises THEN TrainFails /\ t_raised' = t_raised \cup {"args"}
         ELSE t_pc' = "fit" /\ t_exit' = t_exit /\ t_raised' = t_raised
    /\ UNCHANGED approx
    /\ UNCHANGED TrainArgs
    /\ TrainOnly

\* faulty variant: trainer.train() is called again after an exception
Fit_Retries ==
    /\ t_pc = "fit"
    /\ t_log' = Append(t_log, "fit")
    /\ \E raises \in BOOLEAN :
         /\ (stream /\ IterationRaises(dataset_ext, file_exists, file)) => raises
         /\ IF raises
            THEN /\ t_pc' = IF "fit" \in t_raised THEN "exit" ELSE "fit"
                 /\ t_exit' = IF "fit" \in t_raised THEN 1 ELSE t_exit
                 /\ t_raised' = t_raised \cup {"fit"}
            ELSE t_pc' = "save" /\ t_exit' = t_exit /\ t_raised' = t_raised
    /\ UNCHANGED <<approx, calc_max_steps, max_steps>>
    /\ UNCHANGED TrainArgs
    /\ TrainOnly

\* lines 312-320: trainer.train(); in streaming mode it iterates the dataset
Fit ==
    /\ t_pc = "fit"
    /\ t_log' = Append(t_log, "fit")
    /\ \E raises \in BOOLEAN :
         /\ (stream /\ IterationRaises(dataset_ext, file_exists, file)) => raises
         /\ IF raises THEN TrainFails /\ t_raised' = t_raised \cup {"fit"}
            ELSE t_pc' = "save" /\ t_exit' = t_exit /\ t_raised' = t_raised
    /\ UNCHANGED <<approx, calc_max_steps, max_steps>>
    /\ UNCHANGED TrainArgs
    /\ TrainOnly

\* lines 322-329
SaveModel == LibraryStage("save", "merge")

\* faulty variant: a failing merge ends the process like the other stages
Merge_Fatal ==
    /\ t_pc = "merge"
    /\ t_log' = Append(t_log, "merge")
    /\ \E raises \in BOOLEAN :
         /\ t_pc' = "exit"
         /\ t_exit' = IF raises THEN 1 ELSE 0
         /\ t_raised' = IF raises THEN t_raised \cup {"merge"} ELSE t_raised
    /\ UNCHANGED <<approx, calc_max_steps, max_steps>>
    /\ UNCHANGED TrainArgs
    /\ TrainOnly

\* lines 331-347: a failing merge is logged and main() returns all the same
Merge ==
    /\ t_pc = "merge"
    /\ t_log' = Append(t_log, "merge")
    /\ \E raises \in BOOLEAN :
         /\ t_pc' = "exit"
         /\ t_exit' = 0
         /\ t_raised' = IF raises THEN t_raised \cup {"merge"} ELSE t_raised
    /\ UNCHANGED <<approx, calc_max_steps, max_steps>>
    /\ UNCHANGED TrainArgs
    /\ TrainOnly

TrainNext ==
    \/ LoadDataset
    \/ LoadTokenizer
    \/ Tokenize
    \/ LoadModel
    \/ ApplyLora
    \/ PrepareTrainer
    \/ Fit
    \/ SaveModel
    \/ Merge

TrainStart ==
    TrainInit /\ ExportIdle /\ JsonlIdle /\ OthersIdle /\ LateIdle

TrainSpec == TrainStart /\ [][TrainNext]_vars

----------------------------------------------------------------------------
(* The step estimate of main(), lines 262-278, as a function of the count  *)
(* and of the three integer options                                        *)

MaxCount == 5

MaxEstArg == 3

\* the values of the scenario of a smoke test: --grad-accum 16 --epochs 15
ScenarioArgs == {15, 16}

\* parse_args, lines 83-85: type=int takes every integer, also 0 and below
EstArgValues == (-1..MaxEstArg) \cup ScenarioArgs

\* 'approx' when the estimate is made: undefined, or the pre-scan's count
EstCounts == {<<>>} \cup {<<n>> : n \in -1..MaxCount}

EstInit ==
    /\ est_in \in [approx : EstCounts, batch_size : EstArgValues,
                   grad_accum : EstArgValues, epochs : EstArgValues]
    /\ est_out = <<>>

\* lines 264-275 with args.stream set
Estimate ==
    /\ est_out = <<>>
    /\ est_out' = <<EstimateSteps(est_in.approx, est_in.batch_size,
                                  est_in.grad_accum, est_in.epochs)>>
    /\ UNCHANGED est_in
    /\ UNCHANGED <<exportVars, file, jsonlVars, trainVars, logVars, etaVars,
                   lateVars>>

EstNext == Estimate

EstStart ==
    /\ EstInit
    /\ file = <<>>
    /\ ExportIdle /\ JsonlIdle /\ TrainIdle /\ LogIdle /\ EtaIdle /\ LateIdle

EstSpec == EstStart /\ [][EstNext]_vars

----------------------------------------------------------------------------
(* Floating point.  elapsed_time / current_step and the product with       *)
(* remaining_steps are Python floats: IEEE-754 doubles, every operation    *)
(* rounded to the nearest value of 53 significant bits, ties to even.  A   *)
(* float is [m, x]: the bits m, most significant first and m[1] = 1, of an *)
(* integer mantissa, and the exponent x of the power of two it is scaled   *)
(* by; zero has no bits.                                                   *)

MantissaBits == 53

\* the integers are kept below 2^31: a mantissa is multiplied limb by limb
LimbBits == 18

FloatZero == [m |-> <<>>, x |-> 0]

\* the integer 0 <= n < 2^w as w bits
FixedBits(n, w) == [i \in 1..w |-> (n \div (2 ^ (w - i))) % 2]

\* the bits of the integer 0 < n < 2^30, and no bits for 0
BinaryOf(n) ==
    IF n = 0 THEN <<>>
    ELSE FixedBits(n, CHOOSE k \in 1..30 : 2 ^ (k - 1) <= n /\ n < 2 ^ k)

\* the integer a sequence of at most 30 bits denotes
RECURSIVE IntOf(_)
IntOf(bits) ==
    IF bits = <<>> THEN 0
    ELSE IF Len(bits) = 1 THEN bits[1]
    ELSE LET h == Len(bits) \div 2
         IN IntOf(SubSeq(bits, 1, h)) * (2 ^ (Len(bits) - h))
              + IntOf(SubSeq(bits, h + 1, Len(bits)))

\* bits + 1, one bit longer when every bit was 1
Increment(bits) ==
    IF \A i \in 1..Len(bits) : bits[i] = 1
    THEN <<1>> \o [i \in 1..Len(bits) |-> 0]
    ELSE LET z == CHOOSE i \in 1..Len(bits) :
                     bits[i] = 0 /\ \A j \in (i + 1)..Len(bits) : bits[j] = 1
         IN [i \in 1..Len(bits) |->
                IF i < z THEN bits[i] ELSE IF i = z THEN 1 ELSE 0]

\* round the integer 'bits' (at least MantissaBits long, leading 1), scaled
\* by 2^x, to MantissaBits bits; 'sticky' says that a non-zero remainder
\* below the last bit was already dropped
RoundToNearestEven(bits, x, sticky) ==
    LET keep == SubSeq(bits, 1, MantissaBits)
        rest == SubSeq(bits, MantissaBits + 1, Len(bits))
        half == rest # <<>> /\ rest[1] = 1
        more == sticky \/ \E i \in 2..Len(rest) : rest[i] = 1
        up == half /\ (more \/ keep[MantissaBits] = 1)
        m1 == IF up THEN Increment(keep) ELSE keep
    IN [m |-> SubSeq(m1, 1, MantissaBits),
        x |-> x + Len(rest) + (Len(m1) - MantissaBits)]

\* 2^n mod b for 0 <= n <= 90 and 0 < b < 2^15
Pow2Mod(n, b) ==
    IF n <= 30 THEN (2 ^ n) % b
    ELSE IF n <= 60 THEN (((2 ^ 30) % b) * ((2 ^ (n - 30)) % b)) % b
    ELSE (((((2 ^ 30) % b) * ((2 ^ 30) % b)) % b) * ((2 ^ (n - 60)) % b)) % b

\* the i-th bit after the binary point of rem / b, for 0 <= rem < b
FractionBit(rem, b, i) == (2 * ((rem * Pow2Mod(i - 1, b)) % b)) \div b

\* the float a / b for integers 0 <= a < 2^30 and 0 < b < 2^15: the binary
\* expansion of the quotient from its first 1 on, one bit more than the
\* mantissa holds, and whether what follows is zero
FloatDiv(a, b) ==
    IF a = 0 THEN FloatZero
    ELSE LET whole == BinaryOf(a \div b)
             rem == a % b
             zeros == IF whole # <<>> THEN 0
                      ELSE (CHOOSE i \in 1..b :
                               /\ FractionBit(rem, b, i) = 1
                               /\ \A j \in 1..(i - 1) : FractionBit(rem, b, j) = 0) - 1
             last == zeros + MantissaBits + 1 - Len(whole)
             bits == whole \o [i \in 1..(last - zeros) |->
                                  FractionBit(rem, b, zeros + i)]
         IN RoundToNearestEven(bits, -last, (rem * Pow2Mod(last, b)) % b # 0)

\* the float f * r for an integer 0 <= r < 2^12
FloatTimes(f, r) ==
    IF f.m = <<>> \/ r = 0 THEN FloatZero
    ELSE LET n == Len(f.m)
             lo == IntOf(SubSeq(f.m, n - LimbBits + 1, n)) * r
             mid == IntOf(SubSeq(f.m, n - 2 * LimbBits + 1, n - LimbBits)) * r
                       + lo \div (2 ^ LimbBits)
             hi == IntOf(SubSeq(f.m, 1, n - 2 * LimbBits)) * r
                       + mid \div (2 ^ LimbBits)
             bits == BinaryOf(hi) \o FixedBits(mid % (2 ^ LimbBits), LimbBits)
                        \o FixedBits(lo % (2 ^ LimbBits), LimbBits)
         IN RoundToNearestEven(bits, f.x, FALSE)

\* int(f) for a float 0 <= f < 2^30: the fraction is cut off
FloatToInt(f) ==
    IF f.m = <<>> \/ Len(f.m) + f.x <= 0 THEN 0
    ELSE IF f.x >= 0 THEN IntOf(f.m \o [i \in 1..f.x |-> 0])
    ELSE IntOf(SubSeq(f.m, 1, Len(f.m) + f.x))

----------------------------------------------------------------------------
(* calculate_eta (training_utils.py)                                       *)

DigitChars == <<"0", "1", "2", "3", "4", "5", "6", "7", "8", "9">>

\* str(n) for n >= 0, a character per element
RECURSIVE Decimal(_)
Decimal(n) ==
    IF n < 10 THEN <<DigitChars[n + 1]>>
    ELSE Decimal(n \div 10) \o <<DigitChars[(n % 10) + 1]>>

\* faulty variant: no zero padding
Format02d_Unpadded(n) == Decimal(n)

\* f"{n:02d}" for n >= 0
Format02d(n) == IF n < 10 THEN <<"0">> \o Decimal(n) ELSE Decimal(n)

\* calculate_eta(current_step, total_steps, elapsed_time), lines 20-43, for
\* total_steps >= current_step and an elapsed time of whole seconds
calculate_eta(current_step, ts, elapsed_time) ==
    IF current_step = 0 THEN <<"N", "/", "A">>
    ELSE LET avg_time_per_step == FloatDiv(elapsed_time, current_step)
             remaining_steps == ts - current_step
             remaining_seconds ==
                 FloatToInt(FloatTimes(avg_time_per_step, remaining_steps))
             hours == remaining_seconds \div 3600
             minutes == (remaining_seconds % 3600) \div 60
             seconds == remaining_seconds % 60
         IN Format02d(hours) \o <<":">> \o Format02d(minutes) \o <<":">>
               \o Format02d(seconds)

MaxEtaStep == 11

MaxElapsed == 15

\* elapsed times of a long run, for ETAs of hours
LongElapsed == {4000, 90000}

ElapsedValues == (0..MaxElapsed) \cup LongElapsed

\* state.global_step, state.max_steps >= state.global_step, and the time
EtaInputs ==
    {[current_step |-> c, total_steps |-> t, elapsed_time |-> e] :
        c \in 0..MaxEtaStep, t \in 0..(2 * MaxEtaStep), e \in ElapsedValues}

EtaInit ==
    /\ eta_in \in {a \in EtaInputs : a.total_steps >= a.current_step}
    /\ eta_out = <<>>

\* the call of line 61
CallCalculateEta ==
    /\ eta_out = <<>>
    /\ eta_out' = calculate_eta(eta_in.current_step, eta_in.total_steps,
                               eta_in.elapsed_time)
    /\ UNCHANGED eta_in
    /\ UNCHANGED <<exportVars, file, jsonlVars, trainVars, estVars, logVars,
                   lateVars>>

EtaNext == CallCalculateEta

EtaStart ==
    /\ EtaInit
    /\ file = <<>>
    /\ ExportIdle /\ JsonlIdle /\ TrainIdle /\ EstIdle /\ LogIdle /\ LateIdle

EtaSpec == EtaStart /\ [][EtaNext]_vars

----------------------------------------------------------------------------
(* trainer.train() as LoggingCallback sees it (training_script.py 39-71,   *)
(* 287, 309, 317): the trainer counts optimizer steps up to state.max_steps, *)
(* logs the loss whenever the step is a multiple of logging_steps, and     *)
(* logs the run's metrics once when the loop has ended                     *)

LoggingSteps == 10

MaxTotalSteps == 20

MaxClock == 2

\* the keys of the logs of a periodic log and of the final log
LossLogs == {"loss", "learning_rate", "epoch"}
MetricsLogs == {"train_runtime", "train_loss", "epoch"}

\* on_log(args, state, control, logs), lines 46-71, called with
\* state.global_step = step: the progress lines printed up to and with it
on_log(logs, step) ==
    IF logs # {}
    THEN Append(progress,
                [step |-> step,
                 total_steps |-> total_steps,
                 loss |-> IF "loss" \in logs THEN "loss" ELSE "0",
                 eta |-> calculate_eta(step, total_steps, elapsed)])
    ELSE progress

LogInit ==
    /\ l_pc = "training"
    /\ global_step = 0
    /\ total_steps \in 1..MaxTotalSteps
    /\ elapsed = 0
    /\ progress = <<>>

LogOnly ==
    UNCHANGED <<exportVars, file, jsonlVars, trainVars, estVars, etaVars,
                lateVars>>

\* a second of wall-clock time passes
Tick ==
    /\ l_pc = "training"
    /\ elapsed < MaxClock
    /\ elapsed' = elapsed + 1
    /\ UNCHANGED <<l_pc, global_step, total_steps, progress>>
    /\ LogOnly

\* one optimizer step, logged when logging_steps divides its number
TrainStep ==
    /\ l_pc = "training"
    /\ global_step < total_steps
    /\ global_step' = global_step + 1
    /\ progress' = IF global_step' % LoggingSteps = 0
                   THEN on_log(LossLogs, global_step')
                   ELSE progress
    /\ UNCHANGED <<l_pc, total_steps, elapsed>>
    /\ LogOnly

\* the loop has made state.max_steps steps: the metrics are logged and
\* trainer.train() returns
EndTraining ==
    /\ l_pc = "training"
    /\ global_step = total_steps
    /\ progress' = on_log(MetricsLogs, global_step)
    /\ l_pc' = "ended"
    /\ UNCHANGED <<global_step, total_steps, elapsed>>
    /\ LogOnly

\* trainer.train() raises: nothing more is logged
AbortTraining ==
    /\ l_pc = "training"
    /\ l_pc' = "aborted"
    /\ UNCHANGED <<global_step, total_steps, elapsed, progress>>
    /\ LogOnly

LogNext ==
    \/ Tick
    \/ TrainStep
    \/ EndTraining
    \/ AbortTraining

LogStart ==
    /\ LogInit
    /\ file = <<>>
    /\ ExportIdle /\ JsonlIdle /\ TrainIdle /\ EstIdle /\ EtaIdle /\ LateIdle

LogSpec == LogStart /\ [][LogNext]_vars

----------------------------------------------------------------------------
(* Tabular files (data_loader.py, load_csv and load_csv_streaming).  The   *)
(* file is the sequence of the rows csv.reader gives: file[1] is the       *)
(* header, every other row a sequence of cells, <<>> for a blank line.     *)

MaxRows == 2

MaxCells == 3

Headers == {<<"a">>, <<"a", "b">>, <<"a", "a">>}

\* a cell: empty, whitespace only, or a value
Cells == {"", " ", "1"}

CsvRows == UNION {[1..n -> Cells] : n \in 0..MaxCells}

CsvFiles ==
    {<<h>> \o rows : h \in Headers,
                     rows \in UNION {[1..n -> CsvRows] : n \in 0..MaxRows}}

\* the values a row dictionary of csv.DictReader holds: a cell, None for a
\* column the row is too short for, or the list of the cells beyond the
\* header (kept under the key None)
StrValue(s) == [kind |-> "str", s |-> s]
NoneValue == [kind |-> "none", s |-> ""]
ListValue == [kind |-> "list", s |-> ""]

\* value.strip() of a cell
StripCell(s) == IF s = " " THEN "" ELSE s

\* the items of the dictionary DictReader makes of a row, in dict order:
\* dict(zip(fieldnames, row)) keeps the place of a name's first cell and
\* the value of its last one, the missing columns get None, and cells beyond
\* the header go under the key None
DictRow(header, row) ==
    LET lz == IF Len(header) <= Len(row) THEN Len(header) ELSE Len(row)
        IsFirst(i) == \A j \in 1..(i - 1) : header[j] # header[i]
        firsts == SelectSeq([i \in 1..Len(header) |-> i], IsFirst)
        LastCell(i) ==
            LET same == {j \in 1..lz : header[j] = header[i]}
            IN IF same = {} THEN NoneValue
               ELSE StrValue(row[CHOOSE j \in same : \A k \in same : k <= j])
    IN [k \in 1..Len(firsts) |->
           [key |-> header[firsts[k]], value |-> LastCell(firsts[k])]]
       \o (IF Len(row) > Len(header)
           THEN <<[key |-> None, value |-> ListValue]>>
           ELSE <<>>)

\* 'value and len(value.strip()) > 0' raises AttributeError for the list
RowRaises(items) == \E i \in 1..Len(items) : items[i].value.kind = "list"

\* lines 91-93: the item is kept
IsKept(item) ==
    item.value.kind = "str" /\ item.value.s # "" /\ StripCell(item.value.s) # ""

\* "\n".join(f"{key}: {value}" ...) over the items from the i-th on
RECURSIVE JoinParts(_, _)
JoinParts(items, i) ==
    IF i > Len(items) THEN <<>>
    ELSE (IF i > 1 THEN <<"\n">> ELSE <<>>)
         \o <<items[i].key, ": ", items[i].value.s>> \o JoinParts(items, i + 1)

\* line 95: if text_parts
CsvEmits(parts) == parts # <<>>

\* load_csv, lines 85-97: the loop over the rows from row i on
RECURSIVE LoadCsvFrom(_, _, _)
LoadCsvFrom(f, i, data) ==
    IF i > Len(f) THEN [status |-> "ok", data |-> data]
    ELSE IF f[i] = <<>> THEN LoadCsvFrom(f, i + 1, data)
    ELSE LET items == DictRow(f[1], f[i])
             text_parts == SelectSeq(items, IsKept)
         IN IF RowRaises(items) THEN [status |-> "error", data |-> <<>>]
            ELSE IF CsvEmits(text_parts)
            THEN LoadCsvFrom(f, i + 1,
                             Append(data, [text |-> JoinParts(text_parts, 1)]))
            ELSE LoadCsvFrom(f, i + 1, data)

\* load_csv(file_path) for a file with a header
load_csv(f) == LoadCsvFrom(f, 2, <<>>)

\* DictReader skips the rows that are empty lists: the next row at or after
\* i that is not
RECURSIVE CsvSkip(_, _)
CsvSkip(f, i) ==
    IF i > Len(f) THEN i
    ELSE IF f[i] = <<>> THEN CsvSkip(f, i + 1)
    ELSE i

CsvInit ==
    /\ file \in CsvFiles
    /\ m_result = [status |-> "not_called", data |-> <<>>]
    /\ s_pos = 1
    /\ s_out = <<>>
    /\ s_status = "ready"

\* the call load_csv(file_path), lines 75-99
LoadCsv ==
    /\ m_result.status = "not_called"
    /\ m_result' = load_csv(file)
    /\ UNCHANGED <<file, s_pos, s_out, s_status>>
    /\ JsonlOnly

\* one next() of the generator of load_csv_streaming, lines 104-113: runs to
\* the next yield, to the end of the file, or to the row that raises
RECURSIVE CsvAdvance(_, _)
CsvAdvance(f, pos) ==
    LET i == CsvSkip(f, pos + 1) IN
    IF i > Len(f) THEN [status |-> "done", pos |-> Len(f), out |-> <<>>]
    ELSE LET items == DictRow(f[1], f[i])
             text_parts == SelectSeq(items, IsKept)
         IN IF RowRaises(items) THEN [status |-> "error", pos |-> i, out |-> <<>>]
            ELSE IF CsvEmits(text_parts)
            THEN [status |-> "ready", pos |-> i,
                  out |-> <<[text |-> JoinParts(text_parts, 1)]>>]
            ELSE CsvAdvance(f, i)

CsvStreamNext ==
    /\ s_status = "ready"
    /\ LET r == CsvAdvance(file, s_pos) IN
         /\ s_status' = r.status
         /\ s_pos' = r.pos
         /\ s_out' = s_out \o r.out
    /\ UNCHANGED <<file, m_result>>
    /\ JsonlOnly

CsvNext ==
    \/ LoadCsv
    \/ CsvStreamNext

CsvStart == CsvInit /\ ExportIdle /\ TrainIdle /\ OthersIdle /\ LateIdle

CsvSpec == CsvStart /\ [][CsvNext]_vars

----------------------------------------------------------------------------
(* Free-text files (data_loader.py, load_txt and load_txt_streaming).  The *)
(* file is the sequence of its characters.                                 *)

MaxChars == 5

MaxChunk == 3

\* a letter and two kinds of whitespace
Chars == {"x", " ", "\n"}

SpaceChars == {" ", "\n"}

TxtFiles == UNION {[1..n -> Chars] : n \in 0..MaxChars}

\* full_text[i:i + chunk_size] and f.read(chunk_size) at offset i (from 0):
\* up to chunk_size characters, fewer at the end of the file
Slice(f, i, k) == SubSeq(f, i + 1, IF i + k <= Len(f) THEN i + k ELSE Len(f))

\* faulty variant: whitespace-only chunks are kept
TxtKeeps_All(chunk) == TRUE

\* 'if chunk.strip()'
TxtKeeps(chunk) == \E j \in 1..Len(chunk) : chunk[j] \notin SpaceChars

\* load_txt, lines 134-137: the loop 'for i in range(0, len(full_text),
\* chunk_size)' from offset i on
RECURSIVE LoadTxtFrom(_, _, _, _)
LoadTxtFrom(f, k, i, chunks) ==
    IF i >= Len(f) THEN chunks
    ELSE LoadTxtFrom(f, k, i + k,
                     IF TxtKeeps(Slice(f, i, k))
                     THEN Append(chunks, [text |-> Slice(f, i, k)])
                     ELSE chunks)

\* load_txt(file_path, chunk_size) for chunk_size >= 1
load_txt(f, k) == [status |-> "ok", data |-> LoadTxtFrom(f, k, 0, <<>>)]

\* the generator of load_txt_streaming, lines 146-151, resumed at offset
\* pos: reads chunks until one is yielded or f.read returns ''
RECURSIVE TxtAdvance(_, _, _)
TxtAdvance(f, k, pos) ==
    LET chunk == Slice(f, pos, k) IN
    IF chunk = <<>> THEN [status |-> "done", pos |-> pos, out |-> <<>>]
    ELSE IF TxtKeeps(chunk)
    THEN [status |-> "ready", pos |-> pos + Len(chunk),
          out |-> <<[text |-> chunk]>>]
    ELSE TxtAdvance(f, k, pos + Len(chunk))

TxtInit ==
    /\ file \in TxtFiles
    /\ chunk_size \in 1..MaxChunk
    /\ m_result = [status |-> "not_called", data |-> <<>>]
    /\ s_pos = 0
    /\ s_out = <<>>
    /\ s_status = "ready"

TxtOnly ==
    UNCHANGED <<exportVars, trainVars, otherVars, tokVars, loraVars, guiVars>>

\* the call load_txt(file_path, chunk_size), lines 118-139
LoadTxt ==
    /\ m_result.status = "not_called"
    /\ m_result' = load_txt(file, chunk_size)
    /\ UNCHANGED <<file, chunk_size, s_pos, s_out, s_status>>
    /\ TxtOnly

\* one next() of the generator of load_txt_streaming
TxtStreamNext ==
    /\ s_status = "ready"
    /\ LET r == TxtAdvance(file, chunk_size, s_pos) IN
         /\ s_status' = r.status
         /\ s_pos' = r.pos
         /\ s_out' = s_out \o r.out
    /\ UNCHANGED <<file, chunk_size, m_result>>
    /\ TxtOnly

TxtNext ==
    \/ LoadTxt
    \/ TxtStreamNext

TxtStart ==
    /\ TxtInit
    /\ ExportIdle /\ TrainIdle /\ OthersIdle /\ TokIdle /\ LoraIdle /\ GuiIdle

TxtSpec == TxtStart /\ [][TxtNext]_vars

----------------------------------------------------------------------------
(* Tokenization (data_loader.py, format_for_training, and the tokenizing   *)
(* stage of training_script.py).  A text is a sequence of characters; the  *)
(* tokenizer gives one token id per character.                             *)

MaxTextLen == 2

MaxRecords == 2

MaxLength == 2

TextChars == {"a", "b"}

Texts == UNION {[1..n -> TextChars] : n \in 0..MaxTextLen}

Datasets == UNION {[1..n -> [text : Texts]] : n \in 0..MaxRecords}

\* tokenizer.pad_token_id
PadId == 0

\* the vocabulary
TokenId(ch) == IF ch = "a" THEN 1 ELSE 2

\* truncation=True, max_length=n
Truncate(ids, n) == SubSeq(ids, 1, IF Len(ids) <= n THEN Len(ids) ELSE n)

\* padding="max_length", max_length=n
PadToMaxLength(ids, n, pad) ==
    [i \in 1..(IF Len(ids) >= n THEN Len(ids) ELSE n) |->
        IF i <= Len(ids) THEN ids[i] ELSE pad]

\* tokenizer(text, truncation=True, padding="max_length", max_length=n)
tokenizer(text, n) ==
    LET ids == Truncate([i \in 1..Len(text) |-> TokenId(text[i])], n)
        mask == [i \in 1..Len(ids) |-> 1]
    IN  [input_ids |-> PadToMaxLength(ids, n, PadId),
         attention_mask |-> PadToMaxLength(mask, n, 0)]

\* faulty variant: remove_columns is ignored
MapExample_KeepsColumns(example, out, remove_columns) ==
    [c \in DOMAIN example \cup DOMAIN out |->
        IF c \in DOMAIN out THEN out[c] ELSE example[c]]

\* dataset.map(function, remove_columns=...) on one example: the columns
\* the function returns are added to the example and the named columns
\* are removed
MapExample(example, out, remove_columns) ==
    [c \in (DOMAIN example \cup DOMAIN out) \ remove_columns |->
        IF c \in DOMAIN out THEN out[c] ELSE example[c]]

\* dataset.column_names; a dataset made from an empty list has no columns
column_names(d) == IF d = <<>> THEN {} ELSE DOMAIN d[1]

\* tokenize_function mapped over the in-memory dataset, lines 186-190
MapAll(d, n) ==
    [i \in 1..Len(d) |-> MapExample(d[i], tokenizer(d[i].text, n),
                                    column_names(d))]

\* normalize of training_script.py, lines 186-190
normalize(example) ==
    [example EXCEPT !["input_ids"] = example["input_ids"],
                    !["attention_mask"] = example["attention_mask"]]

TokInit ==
    /\ tok_pc = "start"
    /\ dataset \in Datasets
    /\ is_iterable \in BOOLEAN
    /\ max_length \in 1..MaxLength
    /\ tok_pos = 0
    /\ tokenized = <<>>

TokOnly ==
    UNCHANGED <<exportVars, file, jsonlVars, trainVars, otherVars, txtVars,
                loraVars, guiVars>>

\* format_for_training on an in-memory Dataset, lines 185-191
FormatDataset ==
    /\ tok_pc = "start"
    /\ ~is_iterable
    /\ tokenized' = MapAll(dataset, max_length)
    /\ tok_pos' = Len(dataset)
    /\ tok_pc' = "done"
    /\ UNCHANGED <<dataset, is_iterable, max_length>>
    /\ TokOnly

\* format_for_training on an IterableDataset, lines 173-184, and the
\* map(normalize) of the training script: both maps are lazy
FormatIterable ==
    /\ tok_pc = "start"
    /\ is_iterable
    /\ tok_pc' = "lazy"
    /\ UNCHANGED <<dataset, is_iterable, max_length, tok_pos, tokenized>>
    /\ TokOnly

\* the consumer takes the next example of the mapped stream
NextExample ==
    /\ tok_pc = "lazy"
    /\ tok_pos < Len(dataset)
    /\ LET ex == dataset[tok_pos + 1] IN
         tokenized' =
             Append(tokenized,
                    normalize(MapExample(ex, tokenizer(ex.text, max_length),
                                         {"text"})))
    /\ tok_pos' = tok_pos + 1
    /\ UNCHANGED <<tok_pc, dataset, is_iterable, max_length>>
    /\ TokOnly

\* the mapped stream is exhausted
EndOfStream ==
    /\ tok_pc = "lazy"
    /\ tok_pos = Len(dataset)
    /\ tok_pc' = "done"
    /\ UNCHANGED <<dataset, is_iterable, max_length, tok_pos, tokenized>>
    /\ TokOnly

TokNext ==
    \/ FormatDataset
    \/ FormatIterable
    \/ NextExample
    \/ EndOfStream

TokStart ==
    /\ TokInit /\ file = <<>>
    /\ ExportIdle /\ JsonlIdle /\ TrainIdle /\ OthersIdle /\ TxtIdle
    /\ LoraIdle /\ GuiIdle

TokSpec == TokStart /\ [][TokNext]_vars

----------------------------------------------------------------------------
(* suggest_lora_target_modules (training_utils.py).  A string is the       *)
(* sequence of its pieces; "q_proj" is the piece "q" followed by "_proj".  *)

MaxModules == 3

\* the pieces of the four strings searched for and returned
Pieces(s) ==
    CASE s = "q_proj" -> <<"q", "_proj">>
      [] s = "k_proj" -> <<"k", "_proj">>
      [] s = "v_proj" -> <<"v", "_proj">>
      [] s = "o_proj" -> <<"o", "_proj">>
      [] s = "c_attn" -> <<"c", "_attn">>
      [] s = "query_key_value" -> <<"query", "_key", "_value">>

\* module names: attention projections of the three families, a name that
\* holds two patterns, and names that are only parts of a pattern
ModuleNames ==
    { <<"layers", ".", "q", "_proj">>,
      <<"layers", ".", "v", "_proj">>,
      <<"h", ".", "c", "_attn">>,
      <<"h", ".", "query", "_key", "_value">>,
      <<"q", "_proj", ".", "c", "_attn">>,
      <<"q">>,
      <<"_proj">>,
      <<"mlp">> }

ModuleTypes == {"Linear", "Conv1D"}

Modules == [name : ModuleNames, type : ModuleTypes]

ModuleLists == UNION {[1..n -> Modules] : n \in 0..MaxModules}

\* "\n".join(names)
RECURSIVE JoinNames(_, _)
JoinNames(names, i) ==
    IF i > Len(names) THEN <<>>
    ELSE IF i = Len(names) THEN names[i]
    ELSE names[i] \o <<"\n">> \o JoinNames(names, i + 1)

\* 'pattern in s' for strings
In(pattern, s) ==
    \E i \in 0..(Len(s) - Len(pattern)) :
        SubSeq(s, i + 1, i + Len(pattern)) = pattern

\* faulty variant: the fused attention rule comes first
suggest_lora_target_modules_FusedFirst(model) ==
    LET names == [i \in 1..Len(model) |-> model[i].name]
        joined == JoinNames(names, 1)
    IN  IF In(Pieces("c_attn"), joined)
        THEN <<"c_attn">>
        ELSE IF In(Pieces("q_proj"), joined) /\ In(Pieces("v_proj"), joined)
        THEN <<"q_proj", "k_proj", "v_proj", "o_proj">>
        ELSE IF In(Pieces("query_key_value"), joined)
        THEN <<"query_key_value">>
        ELSE <<"q_proj", "v_proj">>

suggest_lora_target_modules(model) ==
    LET names == [i \in 1..Len(model) |-> model[i].name]
        joined == JoinNames(names, 1)
    IN  IF In(Pieces("q_proj"), joined) /\ In(Pieces("v_proj"), joined)
        THEN <<"q_proj", "k_proj", "v_proj", "o_proj">>
        ELSE IF In(Pieces("c_attn"), joined)
        THEN <<"c_attn">>
        ELSE IF In(Pieces("query_key_value"), joined)
        THEN <<"query_key_value">>
        ELSE <<"q_proj", "v_proj">>

LoraInit ==
    /\ named_modules \in ModuleLists
    /\ targets = <<>>

\* the call suggest_lora_target_modules(model)
Suggest ==
    /\ targets = <<>>
    /\ targets' = suggest_lora_target_modules(named_modules)
    /\ UNCHANGED <<named_modules>>
    /\ UNCHANGED <<exportVars, file, jsonlVars, trainVars, otherVars, txtVars,
                   tokVars, guiVars>>

LoraNext ==
    \/ Suggest

LoraStart ==
    /\ LoraInit /\ file = <<>>
    /\ ExportIdle /\ JsonlIdle /\ TrainIdle /\ OthersIdle
    /\ TxtIdle /\ TokIdle /\ GuiIdle

LoraSpec == LoraStart /\ [][LoraNext]_vars

----------------------------------------------------------------------------
(* The wizard (gui/main_window.py, gui/steps/step_3_config.py,             *)
(* gui/steps/step_4_training.py).  Steps by index: 0 Project Setup,        *)
(* 1 Upload Data, 2 Configure Training, 3 Training, 4 Export Model.  The   *)
(* backend is the environment: it keeps a status per job, serves or        *)
(* refuses each request, and ends a running training.                      *)

MaxOrphans == 1

MaxNotified == 2

\* the status of a job that finished for good
TerminalStatuses == {"COMPLETED", "FAILED", "CANCELLED"}

\* the job the backend knows under this id
IsJob(j) == j \in 1..Len(jobs)

\* the other parts are left alone
GuiOnly ==
    UNCHANGED <<exportVars, file, jsonlVars, trainVars, otherVars, txtVars,
                tokVars, loraVars>>

\* the event loop is free to deliver a click or a timer: the window is
\* open and no queued signal waits (posted events go first)
Ready == ~closed /\ signal = <<>>

\* a request of the Training widget for the job in job_id
TrainingRequest ==
    bad_request' =
        (bad_request \/ job_id = NoJob \/ job_id # created_by_next)

\* a polling request of the Training widget
PollRequest ==
    /\ TrainingRequest
    /\ polled_after' = (polled_after \/ job_id \in terminal_seen)

\* start_polling, lines 116-131: three new timers replace the ones held,
\* which are not stopped
StartPolling ==
    /\ orphan_timers' = orphan_timers + (IF timers_active THEN 1 ELSE 0)
    /\ timers_active' = TRUE

\* go_next on Project Setup and Upload Data: validate, save_data, advance
NextSetup ==
    /\ Ready
    /\ wizard_step \in {0, 1}
    /\ \E valid \in BOOLEAN :
        wizard_step' = IF valid THEN wizard_step + 1 ELSE wizard_step
    /\ UNCHANGED <<job_id, current_status, timers_active, orphan_timers,
                   signal, jobs, closed, created_by_next, completed_seen,
                   terminal_seen, polled_after, notified, last_back,
                   bad_request>>
    /\ GuiOnly

\* go_next on Configure Training: validate; save_data starts CreateJobThread
\* and waits for it, the thread's signal stays queued; the wizard advances
\* and the Training step starts polling
NextConfigure ==
    /\ Ready
    /\ wizard_step = 2
    /\ orphan_timers + (IF timers_active THEN 1 ELSE 0) <= MaxOrphans
    /\ \E valid \in BOOLEAN :
        IF ~valid
        THEN UNCHANGED <<wizard_step, signal, jobs, created_by_next,
                         timers_active, orphan_timers>>
        ELSE /\ \E created \in BOOLEAN :
                  IF created /\ Len(jobs) < MaxJobs
                  THEN /\ jobs' = Append(jobs, "QUEUED")
                       /\ signal' = <<"finished", Len(jobs) + 1>>
                       /\ created_by_next' = Len(jobs) + 1
                  ELSE /\ jobs' = jobs
                       /\ signal' = <<"error">>
                       /\ created_by_next' = NoJob
             /\ wizard_step' = 3
             /\ StartPolling
    /\ UNCHANGED <<job_id, current_status, closed, completed_seen,
                   terminal_seen, polled_after, notified, last_back,
                   bad_request>>
    /\ GuiOnly

\* the queued signal reaches on_job_created or on_job_error
DeliverSignal ==
    /\ ~closed
    /\ signal # <<>>
    /\ job_id' = IF signal[1] = "finished" THEN signal[2] ELSE job_id
    /\ signal' = <<>>
    /\ UNCHANGED <<wizard_step, current_status, timers_active, orphan_timers,
                   jobs, closed, created_by_next, completed_seen,
                   terminal_seen, polled_after, notified, last_back,
                   bad_request>>
    /\ GuiOnly

\* Step4TrainingWidget.validate
Step4Validate(status) == status = "COMPLETED"

\* go_next on Training: validate, advance; the Export step loads the job
\* summary
NextTraining ==
    /\ Ready
    /\ wizard_step = 3
    /\ wizard_step' = IF Step4Validate(current_status) THEN 4 ELSE 3
    /\ UNCHANGED <<job_id, current_status, timers_active, orphan_timers,
                   signal, jobs, closed, created_by_next, completed_seen,
                   terminal_seen, polled_after, notified, last_back,
                   bad_request>>
    /\ GuiOnly

\* go_next on Export Model: handle_finish asks and closes
Finish ==
    /\ Ready
    /\ wizard_step = 4
    /\ \E close \in BOOLEAN : closed' = close
    /\ UNCHANGED <<wizard_step, job_id, current_status, timers_active,
                   orphan_timers, signal, jobs, created_by_next,
                   completed_seen, terminal_seen, polled_after, notified,
                   last_back, bad_request>>
    /\ GuiOnly

\* the window's close button: closeEvent asks on the Training step when a
\* job exists
CloseWindow ==
    /\ Ready
    /\ IF wizard_step = 3 /\ job_id # NoJob
       THEN \E reply \in {"Yes", "No"} : closed' = (reply = "Yes")
       ELSE closed' = TRUE
    /\ UNCHANGED <<wizard_step, job_id, current_status, timers_active,
                   orphan_timers, signal, jobs, created_by_next,
                   completed_seen, terminal_seen, polled_after, notified,
                   last_back, bad_request>>
    /\ GuiOnly

\* cancel_job on the backend: a job that has not finished becomes CANCELLED,
\* anything else is refused
CancelOnBackend(j, ok) ==
    IF ok /\ IsJob(j) /\ jobs[j] \notin TerminalStatuses
    THEN [jobs EXCEPT ![j] = "CANCELLED"]
    ELSE jobs

\* the step on which go_back asks and cancels: 'if self.current_step == 4'
BackSpecialStep == 4

\* go_back, lines 124-147
GoBack ==
    /\ Ready
    /\ wizard_step > 0
    /\ IF wizard_step = BackSpecialStep
       THEN \E reply \in {"Yes", "No"} :
            IF reply = "No"
            THEN UNCHANGED <<wizard_step, job_id, jobs, last_back>>
            ELSE /\ \E ok \in BOOLEAN :
                      jobs' = IF job_id # NoJob
                              THEN CancelOnBackend(job_id, ok) ELSE jobs
                 /\ job_id' = NoJob
                 /\ wizard_step' = wizard_step - 1
                 /\ last_back' = <<[from |-> wizard_step, job |-> job_id,
                                    asked |-> TRUE,
                                    cancel_sent |-> job_id # NoJob,
                                    job_after |-> NoJob]>>
       ELSE /\ wizard_step' = wizard_step - 1
            /\ last_back' = <<[from |-> wizard_step, job |-> job_id,
                               asked |-> FALSE, cancel_sent |-> FALSE,
                               job_after |-> job_id]>>
            /\ UNCHANGED <<job_id, jobs>>
    /\ UNCHANGED <<current_status, timers_active, orphan_timers, signal,
                   closed, created_by_next, completed_seen, terminal_seen,
                   polled_after, notified, bad_request>>
    /\ GuiOnly

\* a control request for job j that the backend accepts when the job is in
\* one of the given statuses
Accepts(j, ok, from) == ok /\ IsJob(j) /\ jobs[j] \in from

\* start_training, lines 142-154
StartTraining ==
    /\ Ready
    /\ wizard_step = 3
    /\ current_status = "QUEUED"
    /\ TrainingRequest
    /\ \E ok \in BOOLEAN :
        IF Accepts(job_id, ok, {"QUEUED"})
        THEN /\ jobs' = [jobs EXCEPT ![job_id] = "RUNNING"]
             /\ current_status' = "RUNNING"
        ELSE UNCHANGED <<jobs, current_status>>
    /\ UNCHANGED <<wizard_step, job_id, timers_active, orphan_timers, signal,
                   closed, created_by_next, completed_seen, terminal_seen,
                   polled_after, notified, last_back>>
    /\ GuiOnly

\* pause_training, lines 156-163
PauseTraining ==
    /\ Ready
    /\ wizard_step = 3
    /\ current_status = "RUNNING"
    /\ TrainingRequest
    /\ \E ok \in BOOLEAN :
        IF Accepts(job_id, ok, {"RUNNING"})
        THEN /\ jobs' = [jobs EXCEPT ![job_id] = "PAUSED"]
             /\ current_status' = "PAUSED"
        ELSE UNCHANGED <<jobs, current_status>>
    /\ UNCHANGED <<wizard_step, job_id, timers_active, orphan_timers, signal,
                   closed, created_by_next, completed_seen, terminal_seen,
                   polled_after, notified, last_back>>
    /\ GuiOnly

\* resume_training, lines 165-172
ResumeTraining ==
    /\ Ready
    /\ wizard_step = 3
    /\ current_status = "PAUSED"
    /\ TrainingRequest
    /\ \E ok \in BOOLEAN :
        IF Accepts(job_id, ok, {"PAUSED"})
        THEN /\ jobs' = [jobs EXCEPT ![job_id] = "RUNNING"]
             /\ current_status' = "RUNNING"
        ELSE UNCHANGED <<jobs, current_status>>
    /\ UNCHANGED <<wizard_step, job_id, timers_active, orphan_timers, signal,
                   closed, created_by_next, completed_seen, terminal_seen,
                   polled_after, notified, last_back>>
    /\ GuiOnly

\* cancel_training, lines 174-190: on Yes and an accepted request the status
\* becomes CANCELLED and the timers held are stopped
CancelTraining ==
    /\ Ready
    /\ wizard_step = 3
    /\ current_status \in {"RUNNING", "PAUSED"}
    /\ \E reply \in {"Yes", "No"}, ok \in BOOLEAN :
        IF reply = "No"
        THEN UNCHANGED <<jobs, current_status, timers_active, terminal_seen,
                         bad_request>>
        ELSE /\ TrainingRequest
             /\ IF Accepts(job_id, ok, {"QUEUED", "RUNNING", "PAUSED"})
                THEN /\ jobs' = [jobs EXCEPT ![job_id] = "CANCELLED"]
                     /\ current_status' = "CANCELLED"
                     /\ timers_active' = FALSE
                     /\ terminal_seen' = terminal_seen \cup {job_id}
                ELSE UNCHANGED <<jobs, current_status, timers_active,
                                 terminal_seen>>
    /\ UNCHANGED <<wizard_step, job_id, orphan_timers, signal, closed,
                   created_by_next, completed_seen, polled_after, notified,
                   last_back>>
    /\ GuiOnly

\* some set of timers runs
Polling == timers_active \/ orphan_timers > 0

\* update_status, lines 192-211, on a tick of a status timer
UpdateStatus ==
    /\ Ready
    /\ Polling
    /\ PollRequest
    /\ \E ok \in BOOLEAN :
        IF ok /\ IsJob(job_id)
        THEN /\ current_status' = jobs[job_id]
             /\ IF jobs[job_id] \in {"COMPLETED", "FAILED"}
                THEN /\ timers_active' = FALSE
                     /\ terminal_seen' = terminal_seen \cup {job_id}
                     /\ notified' =
                          [notified EXCEPT ![job_id] =
                              IF @ < MaxNotified THEN @ + 1 ELSE @]
                ELSE UNCHANGED <<timers_active, terminal_seen, notified>>
             /\ completed_seen' =
                  IF jobs[job_id] = "COMPLETED"
                  THEN completed_seen \cup {job_id} ELSE completed_seen
        ELSE UNCHANGED <<current_status, timers_active, terminal_seen,
                         notified, completed_seen>>
    /\ UNCHANGED <<wizard_step, job_id, orphan_timers, signal, jobs, closed,
                   created_by_next, last_back>>
    /\ GuiOnly

\* update_metrics and update_logs, lines 213-251, on a tick of a metrics or
\* logs timer: a request, labels only
UpdateMetricsOrLogs ==
    /\ Ready
    /\ Polling
    /\ PollRequest
    /\ UNCHANGED <<wizard_step, job_id, current_status, timers_active,
                   orphan_timers, signal, jobs, closed, created_by_next,
                   completed_seen, terminal_seen, notified, last_back>>
    /\ GuiOnly

\* the backend: a running training ends
TrainingEnds ==
    /\ ~closed
    /\ \E j \in 1..Len(jobs), end \in {"COMPLETED", "FAILED"} :
        /\ jobs[j] = "RUNNING"
        /\ jobs' = [jobs EXCEPT ![j] = end]
    /\ UNCHANGED <<wizard_step, job_id, current_status, timers_active,
                   orphan_timers, signal, closed, created_by_next,
                   completed_seen, terminal_seen, polled_after, notified,
                   last_back, bad_request>>
    /\ GuiOnly

GuiNext ==
    \/ NextSetup
    \/ NextConfigure
    \/ DeliverSignal
    \/ NextTraining
    \/ Finish
    \/ CloseWindow
    \/ GoBack
    \/ StartTraining
    \/ PauseTraining
    \/ ResumeTraining
    \/ CancelTraining
    \/ UpdateStatus
    \/ UpdateMetricsOrLogs
    \/ TrainingEnds

GuiStart ==
    /\ GuiInit /\ file = <<>>
    /\ ExportIdle /\ JsonlIdle /\ TrainIdle /\ OthersIdle
    /\ TxtIdle /\ TokIdle /\ LoraIdle

GuiSpec == GuiStart /\ [][GuiNext]_vars

----------------------------------------------------------------------------
(* Properties of the export pipeline                                       *)

\* the steps the export state machine allows
StageSteps ==
    { <<"NOT_STARTED", "CONVERTING_F16">>,
      <<"CONVERTING_F16", "QUANTIZING">>,
      <<"CONVERTING_F16", "SKIPPED">>,
      <<"QUANTIZING", "COMPLETED">>,
      <<"SKIPPED", "COMPLETED">> }
    \cup { <<s, "FAILED">> : s \in {"NOT_STARTED", "CONVERTING_F16",
                                    "QUANTIZING", "SKIPPED", "COMPLETED"} }

NoRevisit(h) == \A i, j \in 1..Len(h) : i # j => h[i] # h[j]

\* the *_f16_temp place of this run's output path
F16TempPath == ReplaceGguf(output_file)

\* C1: a run moves through the stages only along NOT_STARTED ->
\* CONVERTING_F16 -> (QUANTIZING | SKIPPED) -> COMPLETED or into FAILED, never
\* enters a stage twice, invokes each tool at most once, and after FAILED
\* invokes no tool and reports no completion.
C1_StageOrder ==
    [][ /\ (Stage' = Stage \/ <<Stage, Stage'>> \in StageSteps)
        /\ NoRevisit(stages')
        /\ conv_calls' <= 1
        /\ quant_calls' <= 1
        /\ (Stage = "FAILED" =>
               /\ Stage' = "FAILED"
               /\ UNCHANGED <<conv_calls, quant_calls, reported>>)
        /\ (Stage' = "FAILED" => ~reported') ]_vars

C1_Witness ==
    /\ stages = <<"NOT_STARTED", "CONVERTING_F16", "QUANTIZING", "COMPLETED">>
    /\ pc = "exit"
    /\ conv_calls = 1
    /\ quant_calls = 1

\* C2: with a quantizer found and both tools succeeding, the run ends with no
\* *_f16_temp file on disk, the quantizer's output at the requested path, and
\* exit code 0, for every requested output path.
C2_QuantizedExport ==
    (pc = "exit" /\ quantize_binary # None /\ conv = "ok" /\ quant = "ok") =>
        /\ exit_code = 0
        /\ disk[output_file] = "quant"
        /\ (F16TempPath # output_file => disk[F16TempPath] = Absent)

\* C3: with no quantizer found and the conversion succeeding, the quantizer is
\* never invoked, no *_f16_temp file is written, and the run ends COMPLETED
\* through SKIPPED with exit code 0 and the F16 output at the requested path.
C3_SkippedExport ==
    (existing = {} /\ conv = "ok") =>
        /\ quant_calls = 0
        /\ (F16TempPath # output_file => disk[F16TempPath] \notin Written)
        /\ disk[output_file] = "f16"
        /\ Stage \in {"SKIPPED", "COMPLETED"}
        /\ (pc = "exit" =>
               /\ exit_code = 0
               /\ stages = <<"NOT_STARTED", "CONVERTING_F16", "SKIPPED",
                             "COMPLETED">>)

C3_Witness ==
    /\ existing = {}
    /\ conv = "ok"
    /\ pc = "exit"
    /\ F16TempPath # output_file

\* C4: when a run ends in failure because the conversion script or the
\* quantizer exited non-zero, no *_f16_temp file written by the run remains.
C4_NoIntermediateLeft ==
    (/\ pc = "exit"
     /\ exit_code # 0
     /\ (conv \in {"fail", "fail_partial"} \/ quant \in {"fail", "fail_partial"})
     /\ F16TempPath # output_file)
        => disk[F16TempPath] \notin Written

C6_ConversionFailureFatal ==
    (conv \in {"no_script", "fail", "fail_partial"}) =>
        /\ pc = "exit"
        /\ exit_code # 0
        /\ quant_calls = 0
        /\ quant = "not_run"
        /\ ~reported
        /\ Stage = "FAILED"

C6_Witness ==
    /\ conv = "fail"
    /\ quantize_binary # None
    /\ pc = "exit"

\* C7: a run exits 0 only with a file at the requested output path; when the
\* tools that ran reported success but no file is at the output path, the run
\* ends FAILED with a non-zero exit code.
C7_VerifiedOutput ==
    /\ (pc = "exit" /\ exit_code = 0) => disk[output_file] # Absent
    /\ reported => disk[output_file] # Absent
    /\ (/\ pc = "exit"
        /\ conv \in {"ok", "ok_nofile"}
        /\ (quantize_binary # None => quant \in {"ok", "ok_nofile"})
        /\ disk[output_file] = Absent)
           => (exit_code # 0 /\ Stage = "FAILED" /\ ~reported)

C7_Witness ==
    /\ pc = "exit"
    /\ exit_code # 0
    /\ conv = "ok_nofile"
    /\ quantize_binary = None
    /\ disk[output_file] = Absent

----------------------------------------------------------------------------
(* Properties of the record-json ingestors                                 *)

IsObjectLine(l) == l.kind = "object"

ValidFile(f) == \A i \in 1..Len(f) : f[i].kind # "malformed"

IsPrefix(a, b) == Len(a) <= Len(b) /\ \A i \in 1..Len(a) : a[i] = b[i]

\* C9: for every valid record-json file the streaming generator, consumed
\* once from the start, yields record by record what load_jsonl returns: the
\* same number of records with the same text in the same order.
C9_ModeInvariance ==
    (ValidFile(file) /\ m_result.status # "not_called") =>
        /\ m_result.status = "ok"
        /\ s_status # "error"
        /\ IsPrefix(s_out, m_result.data)
        /\ (s_status = "done" => s_out = m_result.data)

C9_Witness ==
    /\ ValidFile(file)
    /\ Len(file) = 2
    /\ file[1] = BlankLine
    /\ m_result.status = "ok"
    /\ s_status = "done"
    /\ Len(s_out) = 1

\* the rules of the record-json format, in the order they are tried
RuleMatches(o, r) ==
    CASE r = 1 -> {"instruction", "response"} \subseteq DOMAIN o
      [] r = 2 -> {"input", "output"} \subseteq DOMAIN o
      [] r = 3 -> "text" \in DOMAIN o
      [] OTHER -> TRUE

RuleOutput(o, r) ==
    CASE r = 1 -> <<"### Instruction:\n", o["instruction"],
                    "\n\n### Response:\n", o["response"]>>
      [] r = 2 -> <<"### Input:\n", o["input"],
                    "\n\n### Output:\n", o["output"]>>
      [] r = 3 -> <<o["text"]>>
      [] OTHER -> json_dumps(o)

FirstRule(o) ==
    CHOOSE r \in 1..4 : RuleMatches(o, r) /\ \A q \in 1..(r - 1) : ~RuleMatches(o, q)

\* the records the rules give for the first n lines of a file
RuleRecords(f, n) ==
    LET objs == SelectSeq(SubSeq(f, 1, n), IsObjectLine)
    IN [i \in 1..Len(objs) |->
           [text |-> RuleOutput(objs[i].obj, FirstRule(objs[i].obj))]]

\* C10: every JSON object on a non-blank line gives one record whose text is
\* that of the first matching rule in the order {instruction, response},
\* {input, output}, {text}, whole object as JSON; in load_jsonl and in the
\* streaming generator alike.
C10_RulePrecedence ==
    /\ m_result.status = "ok" => m_result.data = RuleRecords(file, Len(file))
    /\ s_status \in {"ready", "done", "error"} => s_out = RuleRecords(file, s_pos)

C10_Witness ==
    /\ Len(file) = 2
    /\ DOMAIN file[1].obj = {"instruction", "response", "text"}
    /\ DOMAIN file[2].obj = {"instruction", "text"}
    /\ m_result.status = "ok"
    /\ m_result.data =
          << [text |-> <<"### Instruction:\n", "Hi", "\n\n### Response:\n", "Hello">>],
             [text |-> <<"raw">>] >>
    /\ s_status = "done"

\* the pieces str.strip() removes
Whitespace == {"", " ", "\n"}

\* text.strip() == ""
StripsToEmpty(text) == \A i \in 1..Len(text) : text[i] \in Whitespace

\* C11: every record load_jsonl returns and every record the streaming
\* generator yields has a text that is non-empty after whitespace trimming.
C11_NonEmptyText ==
    /\ \A i \in 1..Len(m_result.data) : ~StripsToEmpty(m_result.data[i].text)
    /\ \A i \in 1..Len(s_out) : ~StripsToEmpty(s_out[i].text)

\* the cells of a row that are non-empty after trimming, each with the
\* column it stands in, in column order
CellsKept(header, row) ==
    LET n == IF Len(header) <= Len(row) THEN Len(header) ELSE Len(row)
        NonBlank(i) == row[i] \notin Whitespace
        kept == SelectSeq([i \in 1..n |-> i], NonBlank)
    IN [k \in 1..Len(kept) |->
           [key |-> header[kept[k]], value |-> StrValue(row[kept[k]])]]

HasCellKept(row) == \E i \in 1..Len(row) : row[i] \notin Whitespace

\* the records the rows 2..n of a tabular file stand for
RowRecords(f, n) ==
    LET rows == SelectSeq(SubSeq(f, 2, n), HasCellKept)
    IN [i \in 1..Len(rows) |->
           [text |-> JoinParts(CellsKept(f[1], rows[i]), 1)]]

\* C22: for every tabular file with a header, load_csv returns and the
\* streaming generator yields, in row order, one record for each data row
\* that has a cell non-empty after trimming: those cells as 'column: value'
\* in column order joined by newlines; rows without such a cell give none.
C22_RowRecords ==
    /\ m_result.status # "not_called" =>
          m_result.status = "ok" /\ m_result.data = RowRecords(file, Len(file))
    /\ s_status \in {"ready", "done", "error"} =>
          s_status # "error" /\ s_out = RowRecords(file, s_pos)

\* the consecutive slices [0,k), [k,2k), ... of the first n characters
Slices(f, n, k) ==
    [j \in 1..((n + k - 1) \div k) |->
        [text |-> SubSeq(f, (j - 1) * k + 1, IF j * k <= n THEN j * k ELSE n)]]

NotWhitespaceOnly(rec) == ~StripsToEmpty(rec.text)

\* the slices of the first n characters that are not whitespace only
SliceRecords(f, n, k) == SelectSeq(Slices(f, n, k), NotWhitespaceOnly)

\* C23: for every free-text file and chunk size k >= 1, load_txt returns and
\* the streaming generator yields exactly the consecutive slices [0,k),
\* [k,2k), ... of the file's characters, in file order, without the
\* whitespace-only ones; every chunk but possibly the last has k characters.
C23_ConsecutiveChunks ==
    /\ m_result.status # "not_called" =>
          /\ m_result.status = "ok"
          /\ m_result.data = SliceRecords(file, Len(file), chunk_size)
          /\ \A i \in 1..(Len(m_result.data) - 1) :
                Len(m_result.data[i].text) = chunk_size
    /\ s_out = SliceRecords(file, s_pos, chunk_size)
    /\ s_status = "done" =>
          s_pos = Len(file) /\ (m_result.status = "ok" => s_out = m_result.data)

C23_Witness ==
    /\ file = <<"x", "x", " ", "\n", "x">>
    /\ chunk_size = 2
    /\ s_status = "done"
    /\ m_result.data = <<[text |-> <<"x", "x">>], [text |-> <<"x">>]>>
    /\ s_out = m_result.data

----------------------------------------------------------------------------
(* Properties of the training process                                      *)

\* the dataset given to the process is in error: unsupported extension,
\* file that cannot be opened, or a record-json file with a malformed line
InputError ==
    \/ dataset_ext \notin SupportedExts
    \/ ~file_exists
    \/ dataset_ext = ".jsonl" /\ ~ValidFile(file)

\* C8: in materialized and in streaming mode, an input error makes the
\* process exit non-zero in the dataset-loading stage, before the tokenizer
\* or the model is loaded and before the fit loop is started.
C8_InputErrorsFatalAtLoad ==
    (InputError /\ t_pc # "load") =>
        /\ t_pc = "exit"
        /\ t_exit # 0
        /\ t_log = <<"load">>

\* C15: whenever --stream is set the max_steps given to the training loop is
\* the estimate, which is at least 1 for every count and all integer
\* options; whenever --stream is not set, max_steps is -1.
C15_StepTerminator ==
    max_steps # <<>> =>
        IF stream
        THEN /\ calc_max_steps # <<>>
             /\ max_steps = calc_max_steps
             /\ max_steps[1] =
                    EstimateSteps(approx, batch_size, grad_accum, epochs)
             /\ max_steps[1] >= 1
        ELSE max_steps = <<-1>>

C15_Witness ==
    /\ t_pc = "fit"
    /\ stream
    /\ approx = <<>>
    /\ batch_size = 0 /\ grad_accum = 0 /\ epochs = 0
    /\ max_steps = <<512>>

\* the number of lines of the dataset file, less the header of a tabular one
LinesLessHeader == IF dataset_ext = ".csv" THEN Len(file) - 1 ELSE Len(file)

\* C16: in streaming mode the count N used for the step estimate is the
\* number of lines of a .jsonl or .txt file and the number of lines minus one
\* of a .csv file, whatever records the lines give; with N <= 0 the estimate
\* is made from 512 examples.
C16_ApproximateCount ==
    (stream /\ file_exists /\ dataset_ext \in SupportedExts /\ t_pc # "load") =>
        /\ approx = <<LinesLessHeader>>
        /\ calc_max_steps # <<>> =>
              calc_max_steps[1] =
                 EstimateSteps(<<IF LinesLessHeader <= 0 THEN 512
                                 ELSE LinesLessHeader>>,
                               batch_size, grad_accum, epochs)

C16_Witness ==
    /\ stream
    /\ dataset_ext = ".csv"
    /\ Len(file) = 1
    /\ approx = <<0>>
    /\ batch_size = 1 /\ grad_accum = 1 /\ epochs = 1
    /\ calc_max_steps = <<512>>

\* the stages of the training process, in the order of main()
StageOrder == <<"load", "tokenizer", "tokenize", "model", "lora", "fit",
                "save", "merge">>

\* the construction of the trainer between adapter setup and fit is not one
\* of the stages named
IsNamedStage(s) == s # "args"

StagesStarted == SelectSeq(t_log, IsNamedStage)

\* C19: the stages are started in the order dataset load, tokenizer load,
\* tokenization, model load, adapter setup, fit, adapter save, merge; the
\* process exits 0 only if every stage up to and including the adapter save
\* succeeded, and once one of them has failed the process has exited
\* non-zero with no later stage started.
C19_StageOrderAndExit ==
    /\ IsPrefix(StagesStarted, StageOrder)
    /\ (t_pc = "exit" /\ t_exit = 0) =>
          /\ t_raised \subseteq {"merge"}
          /\ StagesStarted = StageOrder
    /\ \A s \in t_raised \ {"merge"} :
          /\ t_pc = "exit"
          /\ t_exit # 0
          /\ t_log[Len(t_log)] = s

C19_Witness ==
    /\ t_pc = "exit"
    /\ t_exit = 0
    /\ t_raised = {"merge"}
    /\ StagesStarted = StageOrder

\* C20: trainer.train() is called at most once per process; when it raises
\* the process exits non-zero and neither the adapter save nor the merge is
\* started.
C20_FitOnceAndFatal ==
    /\ Cardinality({i \in 1..Len(t_log) : t_log[i] = "fit"}) <= 1
    /\ "fit" \in t_raised =>
          /\ t_pc = "exit"
          /\ t_exit # 0
          /\ \A i \in 1..Len(t_log) : t_log[i] \notin {"save", "merge"}

C20_Witness ==
    /\ "fit" \in t_raised
    /\ t_pc = "exit"
    /\ t_exit = 1
    /\ t_log[Len(t_log)] = "fit"
    /\ ~stream

\* the stage s has been started
Started(s) == \E i \in 1..Len(t_log) : t_log[i] = s

\* C21: the adapter save is started only after a fit that did not raise, and
\* the merge only after an adapter save that did not raise; a merge that
\* raises leaves the process completing with exit code 0, an adapter save
\* that raises makes it exit non-zero with the merge never started.
C21_SaveThenBestEffortMerge ==
    /\ Started("save") => Started("fit") /\ "fit" \notin t_raised
    /\ Started("merge") => Started("save") /\ "save" \notin t_raised
    /\ "merge" \in t_raised => t_pc = "exit" /\ t_exit = 0
    /\ "save" \in t_raised => t_pc = "exit" /\ t_exit # 0 /\ ~Started("merge")

C21_Witness ==
    /\ t_pc = "exit"
    /\ t_exit = 0
    /\ "merge" \in t_raised
    /\ Started("save")
    /\ stream

----------------------------------------------------------------------------
(* Properties of the step estimate                                         *)

\* the least integer k with k * b >= a, for a >= 0 and b >= 1
Ceiling(a, b) == CHOOSE k \in 0..a : k * b >= a /\ (k - 1) * b < a

\* ceil(ceil(N' / batch_size) / grad_accum) * epochs with N' = N when N > 0
\* and 512 when N <= 0 or when there is no count
Budget(ap, b, g, e) ==
    LET n == IF ap # <<>> /\ ap[1] > 0 THEN ap[1] ELSE 512
    IN Ceiling(Ceiling(n, b), g) * e

\* C12: for every count N and batch_size, grad_accum, epochs >= 1 the step
\* budget computed in streaming mode is
\* ceil(ceil(N' / batch_size) / grad_accum) * epochs, N' being N when N > 0
\* and 512 otherwise (also when no count is available); N = 0 with
\* batch_size 1, grad_accum 16 and epochs 15 gives 480.
C12_StepBudget ==
    est_out # <<>> =>
        /\ (est_in.batch_size >= 1 /\ est_in.grad_accum >= 1 /\ est_in.epochs >= 1)
             => est_out[1] = Budget(est_in.approx, est_in.batch_size,
                                    est_in.grad_accum, est_in.epochs)
        /\ est_in = [approx |-> <<0>>, batch_size |-> 1, grad_accum |-> 16,
                     epochs |-> 15]
             => est_out[1] = 480

C12_Witness ==
    /\ est_in = [approx |-> <<0>>, batch_size |-> 1, grad_accum |-> 16,
                 epochs |-> 15]
    /\ est_out = <<480>>

\* the estimate for the inputs of this run with another number of epochs
WithEpochs(e) ==
    EstimateSteps(est_in.approx, est_in.batch_size, est_in.grad_accum, e)

\* the estimate for the inputs of this run with another batch size
WithBatchSize(b) ==
    EstimateSteps(est_in.approx, b, est_in.grad_accum, est_in.epochs)

\* C13 as stated: for every count, batch_size and grad_accum held fixed and
\* any two integers e1 < e2 that --epochs accepts, the estimate for e2 is
\* strictly greater than the estimate for e1.
C13_StrictInEpochs ==
    est_out # <<>> =>
        \A e2 \in EstArgValues : e2 > est_in.epochs => WithEpochs(e2) > est_out[1]

\* C13, amended: for every count, batch_size and grad_accum held fixed and
\* any two epochs values 1 <= e1 < e2, the estimate for e2 is strictly
\* greater than the estimate for e1; values below 1 are estimated as 1.
C13_StrictInPositiveEpochs ==
    est_out # <<>> =>
        /\ est_in.epochs >= 1 =>
              \A e2 \in EstArgValues :
                  e2 > est_in.epochs => WithEpochs(e2) > est_out[1]
        /\ est_in.epochs < 1 => est_out[1] = WithEpochs(1)

C13_Witness ==
    /\ est_in = [approx |-> <<5>>, batch_size |-> 2, grad_accum |-> 1,
                 epochs |-> 2]
    /\ est_out = <<6>>
    /\ WithEpochs(3) = 9

\* C14: for every count, grad_accum and epochs held fixed and any two
\* integer batch sizes b1 < b2, the estimate for b2 is less than or equal to
\* the estimate for b1.
C14_NonIncreasingInBatchSize ==
    est_out # <<>> =>
        \A b2 \in EstArgValues :
            b2 > est_in.batch_size => WithBatchSize(b2) <= est_out[1]

C14_Witness ==
    /\ est_in = [approx |-> <<5>>, batch_size |-> 1, grad_accum |-> 1,
                 epochs |-> 1]
    /\ est_out = <<5>>
    /\ WithBatchSize(2) = 3

----------------------------------------------------------------------------
(* Properties of calculate_eta                                             *)

\* the position of the n-th ":" of s (0 when there is none)
Colons(s) == {i \in 1..Len(s) : s[i] = ":"}

IsDigits(s) == s # <<>> /\ \A i \in 1..Len(s) : \E d \in 1..10 : s[i] = DigitChars[d]

DigitValue(ch) == (CHOOSE d \in 1..10 : DigitChars[d] = ch) - 1

RECURSIVE NumberOf(_)
NumberOf(s) ==
    IF s = <<>> THEN 0
    ELSE 10 * NumberOf(SubSeq(s, 1, Len(s) - 1)) + DigitValue(s[Len(s)])

\* s reads HH:MM:SS: three fields of two or more digits, the last two in
\* 0..59
IsHMS(s) ==
    /\ Cardinality(Colons(s)) = 2
    /\ LET c1 == CHOOSE i \in Colons(s) : \A j \in Colons(s) : i <= j
           c2 == CHOOSE i \in Colons(s) : \A j \in Colons(s) : i >= j
           hh == SubSeq(s, 1, c1 - 1)
           mm == SubSeq(s, c1 + 1, c2 - 1)
           ss == SubSeq(s, c2 + 1, Len(s))
       IN /\ IsDigits(hh) /\ Len(hh) >= 2
          /\ IsDigits(mm) /\ Len(mm) = 2 /\ NumberOf(mm) \in 0..59
          /\ IsDigits(ss) /\ Len(ss) = 2 /\ NumberOf(ss) \in 0..59

\* the seconds a string HH:MM:SS denotes
SecondsOf(s) ==
    LET c1 == CHOOSE i \in Colons(s) : \A j \in Colons(s) : i <= j
        c2 == CHOOSE i \in Colons(s) : \A j \in Colons(s) : i >= j
    IN 3600 * NumberOf(SubSeq(s, 1, c1 - 1))
         + 60 * NumberOf(SubSeq(s, c1 + 1, c2 - 1))
         + NumberOf(SubSeq(s, c2 + 1, Len(s)))

\* remaining_steps * elapsed, to be divided by current_step
RemainingTimesElapsed ==
    (eta_in.total_steps - eta_in.current_step) * eta_in.elapsed_time

\* C18 as stated: calculate_eta returns "N/A" when current_step is 0, and
\* otherwise a string HH:MM:SS of a non-negative duration, minutes and
\* seconds in 0..59, equal to floor(remaining_steps * elapsed / current_step)
\* seconds.
C18_EtaIsFloor ==
    eta_out # <<>> =>
        IF eta_in.current_step = 0 THEN eta_out = <<"N", "/", "A">>
        ELSE /\ IsHMS(eta_out)
             /\ SecondsOf(eta_out) = RemainingTimesElapsed \div eta_in.current_step

\* C18, amended: calculate_eta returns "N/A" when current_step is 0, and
\* otherwise a string HH:MM:SS of a non-negative duration, minutes and
\* seconds in 0..59, that is floor(remaining_steps * elapsed / current_step)
\* seconds or, only when that quotient is a whole number, one second less.
C18_EtaWithinOneSecond ==
    eta_out # <<>> =>
        IF eta_in.current_step = 0 THEN eta_out = <<"N", "/", "A">>
        ELSE /\ IsHMS(eta_out)
             /\ LET floor == RemainingTimesElapsed \div eta_in.current_step
                    d == SecondsOf(eta_out)
                IN /\ d >= 0
                   /\ d \in {floor - 1, floor}
                   /\ d # floor => RemainingTimesElapsed % eta_in.current_step = 0

C18_Witness ==
    /\ eta_in = [current_step |-> 11, total_steps |-> 22, elapsed_time |-> 15]
    /\ eta_out = <<"0", "0", ":", "0", "0", ":", "1", "4">>

----------------------------------------------------------------------------
(* Properties of the progress lines                                        *)

\* C17: within one training run the step numbers of the progress lines
\* printed, for the periodic logs and for the final log, are strictly
\* increasing: no two lines report the same step and none reports a smaller
\* step than an earlier line.
C17_StrictlyIncreasingSteps ==
    \A i, j \in 1..Len(progress) : i < j => progress[i].step < progress[j].step

----------------------------------------------------------------------------
(* Properties of the tokenization                                          *)

\* C24: for in-memory and streamed datasets and texts shorter than, as long
\* as and longer than max_length, every tokenized record has input_ids and
\* attention_mask of exactly max_length entries and no 'text' field, the
\* i-th tokenized record comes from the i-th input record, and a finished
\* tokenization has as many records as its input.
C24_TokenizedRecords ==
    /\ Len(tokenized) = tok_pos
    /\ tok_pos <= Len(dataset)
    /\ tok_pc = "done" => Len(tokenized) = Len(dataset)
    /\ \A i \in 1..Len(tokenized) :
          /\ DOMAIN tokenized[i] = {"input_ids", "attention_mask"}
          /\ Len(tokenized[i]["input_ids"]) = max_length
          /\ Len(tokenized[i]["attention_mask"]) = max_length

\* a finished streamed tokenization of a shorter and a longer text
C24_Witness ==
    /\ tok_pc = "done"
    /\ is_iterable
    /\ max_length = 1
    /\ Len(dataset) = 2
    /\ Len(dataset[1].text) = 0
    /\ Len(dataset[2].text) = 2
    /\ Len(tokenized) = 2

----------------------------------------------------------------------------
(* Properties of suggest_lora_target_modules                               *)

Elements(s) == {s[i] : i \in 1..Len(s)}

\* some name of the set holds the string
SomeNameHas(names, s) == \E n \in names : In(Pieces(s), n)

\* the four rules in their order, on a set of names
RuleTargets(names) ==
    IF SomeNameHas(names, "q_proj") /\ SomeNameHas(names, "v_proj")
    THEN {"q_proj", "k_proj", "v_proj", "o_proj"}
    ELSE IF SomeNameHas(names, "c_attn") THEN {"c_attn"}
    ELSE IF SomeNameHas(names, "query_key_value") THEN {"query_key_value"}
    ELSE {"q_proj", "v_proj"}

\* C25: the targets suggested are a function of the set of module names
\* alone, whatever the order and the types of the modules, and follow the
\* four rules in strict priority: query and value projection, else fused
\* attention, else fused query-key-value, else the fallback; the result
\* is one of the four non-empty sets.
C25_RulePriority ==
    targets # <<>> =>
        /\ Elements(targets) =
               RuleTargets({named_modules[i].name : i \in DOMAIN named_modules})
        /\ Elements(targets) \in
               { {"q_proj", "k_proj", "v_proj", "o_proj"}, {"c_attn"},
                 {"query_key_value"}, {"q_proj", "v_proj"} }

\* a model matching the first and the second rule gets the first; the
\* fused attention module comes first in the list
C25_Witness ==
    /\ Len(named_modules) = 3
    /\ named_modules[1].name = <<"h", ".", "c", "_attn">>
    /\ named_modules[2].name = <<"layers", ".", "v", "_proj">>
    /\ named_modules[3].name = <<"layers", ".", "q", "_proj">>
    /\ targets = <<"q_proj", "k_proj", "v_proj", "o_proj">>

----------------------------------------------------------------------------
(* The quantizer probe and the branch taken by the export                  *)

\* the candidates in list order that exist on disk
ExistingInOrder == SelectSeq(possible_paths, LAMBDA path : path \in existing)

\* the probe has run: the conversion, which follows it at once, was entered
Probed == \E i \in 1..Len(stages) : stages[i] = "CONVERTING_F16"

HasStage(s) == \E i \in 1..Len(stages) : stages[i] = s

\* C26: the probe returns the first candidate of the list that exists and
\* nothing exactly when no candidate exists; the export goes through
\* QUANTIZING iff the probe returned a path (through SKIPPED otherwise), and
\* the quantizer invoked is the path the probe returned.
C26_ProbeAndBranch ==
    /\ Probed =>
          /\ (quantize_binary = None) <=> (ExistingInOrder = <<>>)
          /\ quantize_binary # None => quantize_binary = Head(ExistingInOrder)
    /\ HasStage("QUANTIZING") => Probed /\ quantize_binary # None
    /\ HasStage("SKIPPED") => Probed /\ quantize_binary = None
    /\ pc \in {"step2", "verify"} =>
          HasStage(IF quantize_binary # None THEN "QUANTIZING" ELSE "SKIPPED")
    /\ quant_calls > 0 =>
          /\ HasStage("QUANTIZING")
          /\ quant_argv[1] = Head(ExistingInOrder)
    /\ (pc = "verify" /\ quantize_binary # None) => quant_calls = 1

\* the first candidate is missing, the third and the fifth exist: the third
\* is the one invoked
C26_Witness ==
    /\ existing = {possible_paths[3], possible_paths[5]}
    /\ quant_calls = 1
    /\ quant_argv[1] = possible_paths[3]
    /\ HasStage("QUANTIZING")

----------------------------------------------------------------------------
(* Properties of the wizard                                                *)

\* C27: the Export step is shown only for a job, the one in job_id, that the
\* Training step has polled as COMPLETED; a status remembered from an
\* earlier job does not let Next through.
C27_ExportOnlyAfterCompleted ==
    wizard_step = 4 => job_id # NoJob /\ job_id \in completed_seen

\* C28: a Back from the Training step with a job asks, sends the cancel
\* request for the job and clears job_id, so that no job stays referenced
\* and un-cancelled behind; a Back from any other step cancels nothing.
C28_BackCancelsFromTraining ==
    last_back # <<>> =>
        LET back == last_back[1] IN
        /\ (back.from = 3 /\ back.job # NoJob) =>
              /\ back.asked
              /\ back.cancel_sent
              /\ back.job_after = NoJob
        /\ back.from # 3 => ~back.cancel_sent

\* C29: while the Training step is shown, job_id is the job created by the
\* most recent Next on the Configure step, never None and never an earlier
\* job; no request of the Training step goes out without that job.
C29_TrainingStepHasItsJob ==
    /\ (wizard_step = 3 /\ signal = <<>>) =>
          job_id # NoJob /\ job_id = created_by_next
    /\ ~bad_request

\* the sets of polling timers that run
TimerSets == orphan_timers + (IF timers_active THEN 1 ELSE 0)

\* C30: after the Training step has seen a job terminal no poll is sent for
\* it, the completion or failure box is shown at most once per job, and at
\* most one set of polling timers runs at any moment.
C30_PollingStopsOnce ==
    /\ ~polled_after
    /\ \A j \in 1..MaxJobs : notified[j] <= 1
    /\ TimerSets <= 1

====
